---- MODULE Spec2Model ----
(***************************************************************************)
(* A model of the WhiteWhale AI workflow execution service (backend        *)
(* server.js): the response cache, the Gemini upstream client with its     *)
(* retry policy, the /run-workflow orchestrator, and the checkIfDAG graph  *)
(* validator.                                                              *)
(*                                                                         *)
(* Time is counted in minutes.  Strings that the code only compares are    *)
(* TLA+ strings; strings that the code searches or measures (prompts,      *)
(* error messages, generated texts) are sequences of tokens.               *)
(***************************************************************************)
EXTENDS Integers, Sequences, FiniteSets, TLC

VARIABLES
    cache,      \* the Map `cache`, in insertion order: <<[key, data, timestamp]>>
    now,        \* Date.now(), in minutes
    lastOp,     \* history: the last cache operation of the cache specification
    stored,     \* history: the latest setCache of each watched key
    dagNodes,   \* checkIfDAG's argument `nodes`: the node ids, in order
    dagEdges,   \* checkIfDAG's argument `edges`: <<[source, target]>>
    dagResult,  \* what checkIfDAG(nodes, edges) did: "none" before the call
    envKey,     \* process.env.GOOGLE_API_KEY, "" when not configured
    req,        \* the /run-workflow requests in progress and answered
    served,     \* history: the last request answered with success
    returned,   \* history: the texts successful upstream calls came back with
    tpl,        \* the template loop on its own: its arguments and its result
    tel,        \* callGeminiAPI on its own: its frames and what it reported
    lim,        \* the two rate limiters of one client, and the clock in minutes
    store,      \* the UI store: nodes, edges, id counter, undo history
    saved,      \* localStorage['whitewhale_workflows'] and the clock of Date.now()
    auto,       \* the auto-save timers and localStorage['whitewhale_autosave']
    ui,         \* the run popup: its graph, its inputs and the body it has sent
    api         \* a call of callWorkflowAPI: its attempt, its waits, its result

----------------------------------------------------------------------------
(* Bounds of the model *)

\* The clock stops here.
MaxTime == 6

\* The longest edge list checkIfDAG is called with.
MaxEdges == 3

\* The most entries `inputs` has when the template loop runs on its own.
MaxInputs == 2

\* The clock of the rate limiters stops here, in minutes.
MaxClock == 15

\* The most requests counted past a ceiling within one window.
MaxOver == 1

----------------------------------------------------------------------------
(* Program constants *)

\* const CACHE_TTL = 5 * 60 * 1000, in minutes.
CACHE_TTL == 5

\* `if (cache.size > 1000)`, scaled down from 1000 entries.
CACHE_MAX_SIZE == 2

\* `.slice(0, 500)`, scaled down from 500 entries: half of CACHE_MAX_SIZE.
CACHE_EVICT == 1

\* workflowLimiter: windowMs 1 * 60 * 1000 (in minutes), max 10.
EXEC_WINDOW == 1
EXEC_MAX == 10

\* limiter: windowMs 15 * 60 * 1000 (in minutes) and max 100, the defaults
\* of RATE_LIMIT_WINDOW_MS and RATE_LIMIT_MAX_REQUESTS.
GEN_WINDOW == 15
GEN_MAX == 100

----------------------------------------------------------------------------
(* The response cache *)

\* The keys of a Map, in insertion order (Array.from(cache.keys())).
cacheKeys(c) == [i \in 1..Len(c) |-> c[i].key]

\* cache.get(key): the position of the entry, 0 when the Map has none.
cacheIndex(c, key) ==
    IF \E i \in 1..Len(c) : c[i].key = key
    THEN CHOOSE i \in 1..Len(c) : c[i].key = key
    ELSE 0

\* cache.delete(key).
cacheDelete(c, key) == SelectSeq(c, LAMBDA e : e.key # key)

\* cache.set that leaves the entry of an existing key as it is.
cacheSetIfAbsent(c, key, value) ==
    LET i == cacheIndex(c, key)
        e == [key |-> key, data |-> value.data, timestamp |-> value.timestamp]
    IN  IF i = 0 THEN Append(c, e) ELSE c

\* cache.set(key, value): an existing key keeps its place in the order.
cacheSet(c, key, value) ==
    LET i == cacheIndex(c, key)
        e == [key |-> key, data |-> value.data, timestamp |-> value.timestamp]
    IN  IF i = 0 THEN Append(c, e) ELSE [c EXCEPT ![i] = e]

\* cacheFresh with the comparison written `<=`.
cacheFreshInclusive(c, key, t) ==
    LET i == cacheIndex(c, key)
    IN  i # 0 /\ t - c[i].timestamp <= CACHE_TTL

\* The test of getFromCache: `cached && Date.now() - cached.timestamp < CACHE_TTL`.
cacheFresh(c, key, t) ==
    LET i == cacheIndex(c, key)
    IN  i # 0 /\ t - c[i].timestamp < CACHE_TTL

\* What getFromCache(key) returns at time t: cached.data, or null
\* (found = FALSE).
getFromCache(c, key, t) ==
    IF cacheFresh(c, key, t)
    THEN [found |-> TRUE, data |-> c[cacheIndex(c, key)].data]
    ELSE [found |-> FALSE, data |-> <<>>]

\* The Map after getFromCache(key) at time t: a key that is not returned is
\* deleted.
getFromCacheEffect(c, key, t) ==
    IF cacheFresh(c, key, t) THEN c ELSE cacheDelete(c, key)

\* oldestKeys taking the other end of the key list (`.slice(-500)`).
newestKeys(c) ==
    IF Len(c) > CACHE_MAX_SIZE
    THEN {c[i].key : i \in (Len(c) - CACHE_EVICT + 1)..Len(c)}
    ELSE {}

\* The keys setCache removes once the Map has grown past its capacity:
\* Array.from(cache.keys()).slice(0, 500).
oldestKeys(c) ==
    IF Len(c) > CACHE_MAX_SIZE
    THEN {c[i].key : i \in 1..CACHE_EVICT}
    ELSE {}

\* The Map after setCache(key, data) at time t.
setCache(c, key, data, t) ==
    LET c1 == cacheSet(c, key, [data |-> data, timestamp |-> t])
    IN  SelectSeq(c1, LAMBDA e : e.key \notin oldestKeys(c1))

----------------------------------------------------------------------------
(* The graph validator *)

\* Property names every plain object `{}` inherits from Object.prototype:
\* adj[name] is a truthy non-array value although no node is called name.
InheritedKeys == {"constructor"}

\* The own keys of adj after `nodes.forEach(node => { adj[node.id] = []; })`,
\* in insertion order (Object.keys(adj)).
RECURSIVE adjKeys(_)
adjKeys(nodes) ==
    IF nodes = <<>> THEN <<>>
    ELSE LET front == adjKeys(SubSeq(nodes, 1, Len(nodes) - 1))
             id == nodes[Len(nodes)]
         IN  IF \E i \in 1..Len(front) : front[i] = id THEN front
             ELSE Append(front, id)

\* adj[id] read as a condition or iterated: "own" an array of this graph,
\* "inherited" a member of Object.prototype, "undefined" otherwise.
adjLookup(adj, id) ==
    IF id \in DOMAIN adj THEN "own"
    ELSE IF id \in InheritedKeys THEN "inherited"
    ELSE "undefined"

\* The loop `edges.forEach(edge => { if (adj[edge.source]) adj[edge.source]
\* .push(edge.target) })` from edge i on: push on an inherited value throws.
RECURSIVE addEdges(_, _, _)
addEdges(adj, edges, i) ==
    IF i > Len(edges) THEN [ok |-> TRUE, adj |-> adj]
    ELSE LET e == edges[i]
             found == adjLookup(adj, e.source)
         IN  IF found = "own"
             THEN addEdges([adj EXCEPT ![e.source] = Append(@, e.target)], edges, i + 1)
             ELSE IF found = "inherited"
             THEN [ok |-> FALSE, adj |-> adj]
             ELSE addEdges(adj, edges, i + 1)

\* hasCycle(nodeId) with the sets `visited` and `recStack` it shares:
\* r is "cycle" (true), "none" (false) or "throw".
RECURSIVE hasCycle(_, _, _, _)
RECURSIVE hasCycleLoop(_, _, _, _, _)

\* The body of hasCycle past its two tests: mark the node, visit its
\* neighbours (`adj[nodeId] || []`; iterating an inherited value throws),
\* and take the node off recStack if no cycle was found.
hasCycleVisit(adj, nodeId, visited, recStack) ==
    LET found == adjLookup(adj, nodeId)
        v1 == visited \cup {nodeId}
        s1 == recStack \cup {nodeId}
    IN  IF found = "inherited"
        THEN [r |-> "throw", visited |-> v1, recStack |-> s1]
        ELSE LET neighbors == IF found = "own" THEN adj[nodeId] ELSE <<>>
                 res == hasCycleLoop(adj, neighbors, 1, v1, s1)
             IN  IF res.r = "none"
                 THEN [res EXCEPT !.recStack = @ \ {nodeId}]
                 ELSE res

\* hasCycle with its two tests in the other order.
hasCycleVisitedFirst(adj, nodeId, visited, recStack) ==
    IF nodeId \in visited
    THEN [r |-> "none", visited |-> visited, recStack |-> recStack]
    ELSE IF nodeId \in recStack
    THEN [r |-> "cycle", visited |-> visited, recStack |-> recStack]
    ELSE hasCycleVisit(adj, nodeId, visited, recStack)

hasCycle(adj, nodeId, visited, recStack) ==
    IF nodeId \in recStack
    THEN [r |-> "cycle", visited |-> visited, recStack |-> recStack]
    ELSE IF nodeId \in visited
    THEN [r |-> "none", visited |-> visited, recStack |-> recStack]
    ELSE hasCycleVisit(adj, nodeId, visited, recStack)

\* `for (const neighbor of neighbors) { if (hasCycle(neighbor)) return true; }`
hasCycleLoop(adj, neighbors, i, visited, recStack) ==
    IF i > Len(neighbors)
    THEN [r |-> "none", visited |-> visited, recStack |-> recStack]
    ELSE LET res == hasCycle(adj, neighbors[i], visited, recStack)
         IN  IF res.r = "none"
             THEN hasCycleLoop(adj, neighbors, i + 1, res.visited, res.recStack)
             ELSE res

\* `for (const nodeId of Object.keys(adj)) { if (hasCycle(nodeId)) return
\* false; }  return true;` from key i on.
RECURSIVE dagLoop(_, _, _, _, _)
dagLoop(adj, keys, i, visited, recStack) ==
    IF i > Len(keys) THEN "true"
    ELSE LET res == hasCycle(adj, keys[i], visited, recStack)
         IN  IF res.r = "cycle" THEN "false"
             ELSE IF res.r = "throw" THEN "throw"
             ELSE dagLoop(adj, keys, i + 1, res.visited, res.recStack)

\* checkIfDAG(nodes, edges): "true", "false", or "throw" for a TypeError.
checkIfDAG(nodes, edges) ==
    LET keys == adjKeys(nodes)
        adj0 == [id \in {keys[i] : i \in 1..Len(keys)} |-> <<>>]
        built == addEdges(adj0, edges, 1)
    IN  IF ~built.ok THEN "throw"
        ELSE dagLoop(built.adj, keys, 1, {}, {})

----------------------------------------------------------------------------
(* Texts: prompts, input values and error messages *)

\* A text is a sequence of tokens.  A token is a stretch of literal text s
\* without braces, or the placeholder {{s}}.
Lit(s) == [ph |-> FALSE, s |-> s]
Ph(name) == [ph |-> TRUE, s |-> name]

\* text.replace(new RegExp(`{{${name}}}`, 'g'), value): every occurrence of
\* the placeholder gives way to the replacement the value stands for.
\* A replacement string is not taken literally: `$&` in it stands for the
\* matched text, here the placeholder itself.
RECURSIVE replacement(_, _)
replacement(with, name) ==
    IF with = <<>> THEN <<>>
    ELSE <<IF Head(with) = Lit("$&") THEN Ph(name) ELSE Head(with)>>
            \o replacement(Tail(with), name)

RECURSIVE replaceAll(_, _, _)
replaceAll(text, name, with) ==
    IF text = <<>> THEN <<>>
    ELSE (IF Head(text) = Ph(name) THEN replacement(with, name) ELSE <<Head(text)>>)
            \o replaceAll(Tail(text), name, with)

\* text.includes('{{')
includesBraces(text) == \E i \in 1..Len(text) : text[i].ph

\* message.includes(phrase), for the phrases the status mapping looks for:
\* a message is written with each such phrase as a token of its own.
includes(message, phrase) == \E i \in 1..Len(message) : message[i] = Lit(phrase)

\* An input value: a string, a number or a boolean, with its text String(value).
Str(text) == [type |-> "string", s |-> text]
Num(digits) == [type |-> "number", s |-> <<Lit(digits)>>]

\* Absent and present optional fields of a request.
None == [has |-> FALSE, s |-> <<>>]
NoName == [has |-> FALSE, s |-> ""]
Some(x) == [has |-> TRUE, s |-> x]

----------------------------------------------------------------------------
(* validateWithJoi(workflowSchema) *)

DEFAULT_MODEL == "gemini-2.0-flash-exp"
DEFAULT_SYSTEM == <<Lit("You are a helpful assistant.")>>

\* schema.validate(req.body): whether the body passes workflowSchema.
\* Joi.string() admits no empty string.
joiValid(body) ==
    /\ body.nodes.kind = "list"
    /\ Len(body.nodes.list) >= 1
    /\ \A i \in 1..Len(body.nodes.list) :
          body.nodes.list[i].id # "" /\ body.nodes.list[i].type # ""
    /\ body.inputs.kind \in {"missing", "object"}
    /\ \A i \in 1..Len(body.inputs.entries) :
          body.inputs.entries[i].value.type = "string"
              => body.inputs.entries[i].value.s # <<>>
    /\ body.llmConfig.kind \in {"missing", "object"}
    /\ body.llmConfig.kind = "object" =>
          /\ body.llmConfig.apiKey.has => body.llmConfig.apiKey.s # ""
          /\ body.llmConfig.model.has => body.llmConfig.model.s # ""
          /\ body.llmConfig.system.has => body.llmConfig.system.s # <<>>
          /\ body.llmConfig.prompt.has => body.llmConfig.prompt.s # <<>>

\* The validated value that replaces req.body: the defaults of model and
\* system filled in when llmConfig is given.
joiValue(body) ==
    IF body.llmConfig.kind # "object" THEN body
    ELSE [body EXCEPT
            !.llmConfig.model = IF @.has THEN @ ELSE Some(DEFAULT_MODEL),
            !.llmConfig.system = IF @.has THEN @ ELSE Some(DEFAULT_SYSTEM)]

----------------------------------------------------------------------------
(* POST /run-workflow, up to its first await *)

\* The messages of the errors thrown.
MsgInvalidNodes == <<Lit("Invalid nodes data")>>
MsgNoInputNodes == <<Lit("No input nodes found in workflow")>>
MsgNoOutputNodes == <<Lit("No output nodes found in workflow")>>
MsgNoApiKey == <<Lit("No "), Lit("API key"),
                 Lit(" provided. Please set GOOGLE_API_KEY in .env file or provide a personal API key.")>>
MsgEntriesOfUndefined == <<Lit("Cannot convert undefined or null to object")>>
MsgReplaceNotFunction == <<Lit("userPrompt.replace is not a function")>>
MsgFetchFailed == <<Lit("fetch failed")>>
MsgNoResponse == <<Lit("No response generated from "), Lit("Gemini API")>>
MsgGeminiError(errorMessage) == <<Lit("Gemini API"), Lit(" error: ")>> \o errorMessage
MsgValidationFailed == <<Lit("Validation"), Lit(" failed")>>

\* nodes.filter(node => node.type === type)
nodesOfType(nodes, type) == SelectSeq(nodes, LAMBDA n : n.type = type)

\* llmConfig?.model || 'gemini-2.0-flash-exp'
modelOf(llmConfig) ==
    IF llmConfig.kind = "object" /\ llmConfig.model.has /\ llmConfig.model.s # ""
    THEN llmConfig.model.s ELSE DEFAULT_MODEL

\* llmConfig?.system || 'You are a helpful assistant.'
systemOf(llmConfig) ==
    IF llmConfig.kind = "object" /\ llmConfig.system.has /\ llmConfig.system.s # <<>>
    THEN llmConfig.system.s ELSE DEFAULT_SYSTEM

\* llmConfig?.prompt || ''
promptOf(llmConfig) ==
    IF llmConfig.kind = "object" /\ llmConfig.prompt.has
    THEN Str(llmConfig.prompt.s) ELSE Str(<<>>)

\* llmConfig?.apiKey || process.env.GOOGLE_API_KEY; "" when neither is set.
apiKeyOf(llmConfig, env) ==
    IF llmConfig.kind = "object" /\ llmConfig.apiKey.has /\ llmConfig.apiKey.s # ""
    THEN llmConfig.apiKey.s ELSE env

\* inputNodes.find(n => n.id === nodeId): its position, 0 for undefined.
findNode(inputNodes, nodeId) ==
    IF \E i \in 1..Len(inputNodes) : inputNodes[i].id = nodeId
    THEN CHOOSE i \in 1..Len(inputNodes) :
            /\ inputNodes[i].id = nodeId
            /\ \A j \in 1..(i - 1) : inputNodes[j].id # nodeId
    ELSE 0

\* The callback of Object.entries(inputs).forEach from entry i on.  The
\* user prompt is a value: once a number or a boolean has been assigned to
\* it, it has no replace method.
RECURSIVE templateLoop(_, _, _, _, _)
templateLoop(entries, i, inputNodes, systemPrompt, userPrompt) ==
    IF i > Len(entries)
    THEN [ok |-> TRUE, system |-> systemPrompt, prompt |-> userPrompt]
    ELSE LET nodeId == entries[i].id
             value == entries[i].value
             at == findNode(inputNodes, nodeId)
         IN  IF at = 0
             THEN templateLoop(entries, i + 1, inputNodes, systemPrompt, userPrompt)
             ELSE LET inputName == IF inputNodes[at].inputName # ""
                                   THEN inputNodes[at].inputName ELSE nodeId
                      system1 == replaceAll(systemPrompt, inputName, value.s)
                  IN  IF userPrompt.type # "string"
                      THEN [ok |-> FALSE, system |-> system1, prompt |-> userPrompt]
                      ELSE LET replaced == replaceAll(userPrompt.s, inputName, value.s)
                               user1 == IF ~includesBraces(replaced) THEN value
                                        ELSE Str(replaced)
                           IN  templateLoop(entries, i + 1, inputNodes, system1, user1)

\* The object handed to getCacheKey with the API key as a fourth member.
cacheKeyDataWithApiKey(model, systemPrompt, userPrompt, apiKey) ==
    <<[name |-> "model", value |-> Str(<<Lit(model)>>)],
      [name |-> "system", value |-> Str(systemPrompt)],
      [name |-> "prompt", value |-> userPrompt],
      [name |-> "apiKey", value |-> Str(<<Lit(apiKey)>>)]>>

\* The object handed to getCacheKey: its members, in order.
cacheKeyData(model, systemPrompt, userPrompt, apiKey) ==
    <<[name |-> "model", value |-> Str(<<Lit(model)>>)],
      [name |-> "system", value |-> Str(systemPrompt)],
      [name |-> "prompt", value |-> userPrompt]>>

\* getCacheKey(data) = JSON.stringify(data): the members in order, each value
\* written as a JSON string ("quoted"), number or boolean.
getCacheKey(data) ==
    [i \in 1..Len(data) |->
        [name |-> data[i].name,
         json |-> IF data[i].value.type = "string" THEN "quoted" ELSE "bare",
         text |-> data[i].value.s]]

\* `if (geminiResponse)`: null and the empty string are falsy.
truthy(res) == res.found /\ res.data # <<>>

\* The status code chosen in the catch block from the error message.
statusCode(message) ==
    IF includes(message, "API key") THEN 401
    ELSE IF includes(message, "Validation") THEN 400
    ELSE IF includes(message, "Gemini API") THEN 502
    ELSE 500

\* The handler from its start to the cache probe: the error thrown, the
\* cache hit, or the upstream call to make.
Thrown(message) ==
    [kind |-> "error", message |-> message, model |-> "", system |-> <<>>,
     prompt |-> Str(<<>>), apiKey |-> "", key |-> <<>>, data |-> <<>>]

runWorkflowStart(body, env, c, t) ==
    LET nodes == body.nodes
        inputNodes == nodesOfType(nodes.list, "customInput")
        outputNodes == nodesOfType(nodes.list, "customOutput")
    IN  IF nodes.kind # "list" THEN Thrown(MsgInvalidNodes)
        ELSE IF Len(inputNodes) = 0 THEN Thrown(MsgNoInputNodes)
        ELSE IF Len(outputNodes) = 0 THEN Thrown(MsgNoOutputNodes)
        ELSE IF body.inputs.kind # "object" THEN Thrown(MsgEntriesOfUndefined)
        ELSE
        LET resolved == templateLoop(body.inputs.entries, 1, inputNodes,
                                     systemOf(body.llmConfig), promptOf(body.llmConfig))
            apiKey == apiKeyOf(body.llmConfig, env)
            model == modelOf(body.llmConfig)
        IN  IF ~resolved.ok THEN Thrown(MsgReplaceNotFunction)
            ELSE IF apiKey = "" THEN Thrown(MsgNoApiKey)
            ELSE
            LET key == getCacheKey(cacheKeyData(model, resolved.system,
                                                resolved.prompt, apiKey))
                res == getFromCache(c, key, t)
            IN  [kind |-> IF truthy(res) THEN "hit" ELSE "miss",
                 message |-> <<>>, model |-> model, system |-> resolved.system,
                 prompt |-> resolved.prompt, apiKey |-> apiKey, key |-> key,
                 data |-> res.data]

\* The outputs object with the first output node alone.
outputsOfFirst(outputNodes, geminiResponse) ==
    [id \in {outputNodes[i].id : i \in {1} \cap (1..Len(outputNodes))} |-> geminiResponse]

\* The outputs object: every output node's id mapped to the response.
outputsOf(outputNodes, geminiResponse) ==
    [id \in {outputNodes[i].id : i \in 1..Len(outputNodes)} |-> geminiResponse]

----------------------------------------------------------------------------
(* callGeminiAPI *)

\* The `retries = 2` of a first call.
DEFAULT_RETRIES == 2

\* What one fetch comes to: the promise rejects (no response), or a response
\* arrives with its status, the error message of its body (or its status
\* text), and the text of its first candidate if it has one.
Rejected == [kind |-> "reject", status |-> 0, message |-> <<>>,
             candidates |-> FALSE, text |-> <<>>]
Generated(text) == [kind |-> "response", status |-> 200, message |-> <<>>,
                    candidates |-> TRUE, text |-> text]
NothingGenerated == [kind |-> "response", status |-> 200, message |-> <<>>,
                     candidates |-> FALSE, text |-> <<>>]
Refused(status, message) == [kind |-> "response", status |-> status,
                             message |-> message, candidates |-> FALSE, text |-> <<>>]

\* response.ok
responseOk(o) == o.status >= 200 /\ o.status <= 299

\* The retry test with the bound on the status written `>`.
shouldRetryAbove500(retries, status) ==
    retries > 0 /\ (status = 429 \/ status > 500)

\* `retries > 0 && (response.status === 429 || response.status >= 500)`
shouldRetry(retries, status) ==
    retries > 0 /\ (status = 429 \/ status >= 500)

\* What callGeminiAPI does with the outcome of its fetch: wait and call
\* itself again, return the text, or throw.
geminiStep(o, retries) ==
    IF o.kind = "reject"
    THEN [do |-> "throw", message |-> MsgFetchFailed, text |-> <<>>]
    ELSE IF ~responseOk(o)
    THEN IF shouldRetry(retries, o.status)
         THEN [do |-> "retry", message |-> <<>>, text |-> <<>>]
         ELSE [do |-> "throw", message |-> MsgGeminiError(o.message), text |-> <<>>]
    ELSE IF o.candidates
    THEN [do |-> "return", message |-> <<>>, text |-> o.text]
    ELSE [do |-> "throw", message |-> MsgNoResponse, text |-> <<>>]

----------------------------------------------------------------------------
(* The requests of the service *)

\* The requests the model follows at a time.
Reqs == {1, 2}

\* History: what the last settled fetch of a request came to.
NoOutcome == [kind |-> "none", status |-> 0, candidates |-> FALSE]

\* History: no request has been answered with success yet.
NoneServed ==
    [has |-> FALSE, model |-> "", system |-> <<>>, prompt |-> Str(<<>>),
     apiKey |-> "", key |-> <<>>, outputs |-> <<>>]

\* History: no upstream call has come back with a text yet.  `pairs` holds
\* every <<key, text>> a call came back with, `last` the latest of them.
NoneReturned == [pairs |-> {}, last |-> <<>>]

\* A request that has not arrived.
Idle ==
    [pc |-> "idle", model |-> "", system |-> <<>>, prompt |-> Str(<<>>),
     apiKey |-> "", key |-> <<>>, outputNodes |-> <<>>, retries |-> 0,
     status |-> 0, error |-> <<>>, text |-> <<>>, outputs |-> <<>>,
     tokensUsed |-> 0,
     \* history
     calls |-> 0, delays |-> 0, last |-> NoOutcome, class |-> "none",
     shape |-> "none", keyless |-> FALSE, outIds |-> {}]

ReqsIdle ==
    /\ envKey = ""
    /\ served = NoneServed
    /\ returned = NoneReturned
    /\ req = [r \in Reqs |-> Idle]

----------------------------------------------------------------------------
(* The cache on its own: setCache and getFromCache called with any key and  *)
(* value at any time.                                                       *)

\* Keys and values the cache is exercised with; one more key than fits.
CacheKeyPool == {"k1", "k2", "k3"}
CacheValues == {<<"v1">>, <<"v2">>}

\* The keys whose history `stored` records.
Watched == {"k1"}

NeverStored == [has |-> FALSE, data |-> <<>>, at |-> 0, evicted |-> FALSE]
NoOp == [op |-> "none", key |-> "", found |-> FALSE, data |-> <<>>, pre |-> <<>>]

cacheVars == <<cache, now, lastOp, stored>>
dagVars == <<dagNodes, dagEdges, dagResult>>
reqVars == <<envKey, req, served, returned>>
auxVars == <<tpl, tel, lim, store, saved, auto, ui, api>>
vars == <<cache, now, lastOp, stored, dagNodes, dagEdges, dagResult, envKey, req,
          served, returned, tpl, tel, lim, store, saved, auto, ui, api>>

DagIdle ==
    /\ dagNodes = <<>>
    /\ dagEdges = <<>>
    /\ dagResult = "none"

CacheIdle ==
    /\ cache = <<>>
    /\ now = 0
    /\ lastOp = NoOp
    /\ stored = [k \in Watched |-> NeverStored]

\* The template loop has not been given arguments.
NoTplOut == [done |-> FALSE, ok |-> FALSE, system |-> <<>>, prompt |-> Str(<<>>)]
TplIdle ==
    tpl = [nodes |-> <<>>, entries |-> <<>>, system |-> <<>>, prompt |-> <<>>,
           out |-> NoTplOut]

\* callGeminiAPI has not been called.
NoTel ==
    [pc |-> "idle", model |-> "", retries |-> 0, attempts |-> <<>>, log |-> <<>>,
     result |-> [kind |-> "none", text |-> <<>>, message |-> <<>>],
     due |-> [kind |-> "none", text |-> <<>>, message |-> <<>>]]
TelIdle == tel = NoTel

\* No request of the client has been counted.
NoWindow == [hits |-> 0, reset |-> 0]
NoLim ==
    [clock |-> 0, exec |-> NoWindow, gen |-> NoWindow, last |-> "none",
     reachedExec |-> 0, passedGen |-> 0]
LimIdle == lim = NoLim

\* createHistory()
createHistory == [past |-> <<>>, present |-> [nodes |-> <<>>, edges |-> <<>>],
                  future |-> <<>>]

\* The store as create() leaves it; `pending` is the id getNodeID returned
\* to a caller that has not added its node yet (0 for none), `steps` the
\* number of store actions so far.
NewStore ==
    [nodes |-> <<>>, edges |-> <<>>, nodeIDs |-> 0, pending |-> 0,
     history |-> createHistory, canUndo |-> FALSE, canRedo |-> FALSE,
     steps |-> 0]
StoreIdle == store = NewStore

\* No workflow has been saved; `popped` records that a save has dropped
\* the last entry of the list.
NoSaved == [workflows |-> <<>>, clock |-> 0, popped |-> FALSE]
SavedIdle == saved = NoSaved

\* No timer is pending and nothing has been auto-saved; `storage` tells
\* whether localStorage takes the writes of autoSaveWorkflow (where it does
\* not, the timers have no effect and are not kept).
NothingSaved == [has |-> FALSE, nodes |-> <<>>, edges |-> <<>>]
NoAuto == [storage |-> FALSE, timers |-> <<>>, saved |-> NothingSaved]
AutoIdle == auto = NoAuto

\* The popup has sent nothing.
NoBody ==
    [nodes |-> [kind |-> "missing", list |-> <<>>],
     inputs |-> [kind |-> "missing", entries |-> <<>>],
     llmConfig |-> [kind |-> "missing", apiKey |-> NoName, model |-> NoName,
                    system |-> None, prompt |-> None]]
NoLlmData == [apiKey |-> NoName, model |-> NoName, system |-> None, prompt |-> None]
NoUi == [nodes |-> <<>>, llm |-> FALSE, data |-> NoLlmData, inputs |-> <<>>,
         sent |-> FALSE, body |-> NoBody, passed |-> FALSE]
UiIdle == ui = NoUi

\* callWorkflowAPI has not been called; `maxRetries` is the argument of the
\* call to come.
NoApi ==
    [pc |-> "idle", maxRetries |-> 0, attempt |-> 0, requests |-> 0,
     outcomes |-> <<>>, waits |-> <<>>, error |-> ""]
ApiIdle == api = NoApi

AuxIdle ==
    /\ TplIdle
    /\ TelIdle
    /\ LimIdle
    /\ StoreIdle
    /\ SavedIdle
    /\ AutoIdle
    /\ UiIdle
    /\ ApiIdle

InitCache ==
    /\ CacheIdle
    /\ DagIdle
    /\ ReqsIdle
    /\ AuxIdle

\* setCache(k, v) is called.
CacheSetOp(k, v) ==
    LET after == setCache(cache, k, v, now)
        gone(w) == \E i \in 1..Len(cache) : cache[i].key = w
                   /\ \A j \in 1..Len(after) : after[j].key # w
    IN  /\ cache' = after
        /\ lastOp' = [op |-> "set", key |-> k, found |-> TRUE, data |-> v,
                      pre |-> cacheKeys(cache)]
        /\ stored' = [w \in Watched |->
                         IF w = k
                         THEN [has |-> TRUE, data |-> v, at |-> now, evicted |-> FALSE]
                         ELSE IF gone(w)
                         THEN [stored[w] EXCEPT !.evicted = TRUE]
                         ELSE stored[w]]
        /\ UNCHANGED <<now, dagVars, reqVars, auxVars>>

\* getFromCache(k) is called.
CacheGetOp(k) ==
    LET res == getFromCache(cache, k, now)
    IN  /\ cache' = getFromCacheEffect(cache, k, now)
        /\ lastOp' = [op |-> "get", key |-> k, found |-> res.found, data |-> res.data,
                      pre |-> cacheKeys(cache)]
        /\ UNCHANGED <<now, stored, dagVars, reqVars, auxVars>>

\* A minute passes.
Tick ==
    /\ now < MaxTime
    /\ now' = now + 1
    /\ lastOp' = NoOp
    /\ UNCHANGED <<cache, stored, dagVars, reqVars, auxVars>>

NextCache ==
    \/ \E k \in CacheKeyPool, v \in CacheValues : CacheSetOp(k, v)
    \/ \E k \in CacheKeyPool : CacheGetOp(k)
    \/ Tick

SpecCache == InitCache /\ [][NextCache]_vars

\* Whether a sequence holds x.
InSeq(x, q) == \E i \in 1..Len(q) : q[i] = x

\* C9 as stated: getFromCache(k) returns the value most recently stored by
\* setCache(k, v) if and only if less than CACHE_TTL has elapsed since that
\* set; once the TTL has elapsed the get reports absent and the entry is gone.
C9_GetIffWithinTTL ==
    \A w \in Watched :
        (lastOp.op = "get" /\ lastOp.key = w /\ stored[w].has) =>
            /\ (lastOp.found /\ lastOp.data = stored[w].data)
                    <=> (now - stored[w].at < CACHE_TTL)
            /\ (now - stored[w].at >= CACHE_TTL) =>
                    (~lastOp.found /\ ~InSeq(w, cacheKeys(cache)))

\* C9 as amended: getFromCache(k) returns the value most recently stored by
\* setCache(k, v) if and only if less than CACHE_TTL has elapsed since that
\* set and no later setCache has evicted the entry for capacity; a get that
\* does not return the value reports absent and leaves no entry for k.
C9_GetIffWithinTTLAndNotEvicted ==
    \A w \in Watched :
        (lastOp.op = "get" /\ lastOp.key = w /\ stored[w].has) =>
            /\ (lastOp.found /\ lastOp.data = stored[w].data)
                    <=> (now - stored[w].at < CACHE_TTL /\ ~stored[w].evicted)
            /\ ~(now - stored[w].at < CACHE_TTL /\ ~stored[w].evicted) =>
                    (~lastOp.found /\ ~InSeq(w, cacheKeys(cache)))

\* C9's case: a get of a key whose TTL has elapsed, with its entry still in
\* the Map until that get.
C9_Witness ==
    \E w \in Watched :
        /\ lastOp.op = "get" /\ lastOp.key = w /\ InSeq(w, lastOp.pre)
        /\ stored[w].has /\ ~stored[w].evicted
        /\ now - stored[w].at >= CACHE_TTL
        /\ ~lastOp.found

\* The key order setCache must leave: the key appended unless already there,
\* then the first CACHE_EVICT keys dropped if that is more than CACHE_MAX_SIZE.
KeysAfterSet(pre, k) ==
    LET grown == IF InSeq(k, pre) THEN pre ELSE Append(pre, k)
    IN  IF Len(grown) > CACHE_MAX_SIZE
        THEN SubSeq(grown, CACHE_EVICT + 1, Len(grown))
        ELSE grown

\* C10: setCache(k, v) stores v under k with the current timestamp, evicts the
\* oldest keys by insertion order when the count exceeds the capacity, and so
\* leaves at most CACHE_MAX_SIZE entries, among them the one just set.
C10_SetCacheBounded ==
    /\ Len(cache) <= CACHE_MAX_SIZE
    /\ lastOp.op = "set" =>
            /\ InSeq([key |-> lastOp.key, data |-> lastOp.data, timestamp |-> now], cache)
            /\ cacheKeys(cache) = KeysAfterSet(lastOp.pre, lastOp.key)

\* C10's case: a setCache of a new key into a full Map, which evicts.
C10_Witness ==
    /\ lastOp.op = "set"
    /\ Len(lastOp.pre) = CACHE_MAX_SIZE
    /\ ~InSeq(lastOp.key, lastOp.pre)
    /\ Len(cache) < Len(lastOp.pre) + 1

----------------------------------------------------------------------------
(* The graph validator on its own: checkIfDAG called with any node list and *)
(* edge list.                                                               *)

\* Ids of nodes and edge ends: ordinary ids and one inherited property name.
GraphIds == {"a", "b", "c"} \cup InheritedKeys

\* Node lists: the ids of any choice of nodes, kept in one order.
RECURSIVE SubSeqs(_)
SubSeqs(q) ==
    IF q = <<>> THEN {<<>>}
    ELSE LET rest == SubSeqs(Tail(q))
         IN  rest \cup {<<Head(q)>> \o r : r \in rest}

NodeLists == SubSeqs(<<"a", "b", "c", "constructor">>)

EdgePool == [source : GraphIds, target : GraphIds]
EdgeLists == UNION {[1..n -> EdgePool] : n \in 0..MaxEdges}

InitDag ==
    /\ CacheIdle
    /\ ReqsIdle
    /\ AuxIdle
    /\ dagNodes \in NodeLists
    /\ dagEdges \in EdgeLists
    /\ dagResult = "none"

\* checkIfDAG(nodes, edges) is called.
CheckIfDAGCall ==
    /\ dagResult = "none"
    /\ dagResult' = checkIfDAG(dagNodes, dagEdges)
    /\ UNCHANGED <<dagNodes, dagEdges, cacheVars, reqVars, auxVars>>

NextDag == CheckIfDAGCall

SpecDag == InitDag /\ [][NextDag]_vars

\* The ids of the listed nodes.
Listed == {dagNodes[i] : i \in 1..Len(dagNodes)}

\* The edges of the graph the claims speak of: those whose source is listed.
ListedEdges == {<<dagEdges[i].source, dagEdges[i].target>> :
                    i \in {j \in 1..Len(dagEdges) : dagEdges[j].source \in Listed}}

\* The pairs joined by a path of at least one and at most n + 1 edges of R.
RECURSIVE PathsWithin(_, _)
PathsWithin(R, n) ==
    IF n = 0 THEN R
    ELSE LET P == PathsWithin(R, n - 1)
         IN  P \cup {<<pq[1][1], pq[2][2]>> :
                        pq \in {x \in P \X R : x[1][2] = x[2][1]}}

HasDirectedCycle(R) ==
    \E x \in GraphIds : <<x, x>> \in PathsWithin(R, Cardinality(GraphIds))

----------------------------------------------------------------------------
(* The service: /run-workflow requests arriving, calling upstream, waiting  *)
(* and being answered, in any interleaving.                                 *)

InNode(id, name) == [id |-> id, type |-> "customInput", inputName |-> name]
OutNode(id) == [id |-> id, type |-> "customOutput", inputName |-> ""]

\* The `nodes` of the requests: missing, not an array, without an input
\* node, without an output node, and complete.
NodesChoices ==
    { [kind |-> "missing", list |-> <<>>],
      [kind |-> "other", list |-> <<>>],
      [kind |-> "list", list |-> <<OutNode("out1")>>],
      [kind |-> "list", list |-> <<InNode("in1", "topic")>>],
      [kind |-> "list", list |-> <<InNode("in1", "topic"), InNode("in2", ""),
                                    OutNode("out1")>>],
      [kind |-> "list", list |-> <<InNode("in1", "topic"), OutNode("out1"),
                                    OutNode("out2")>>] }

\* The `inputs` of the requests: missing, one string, a number and a string.
InputsChoices ==
    { [kind |-> "missing", entries |-> <<>>],
      [kind |-> "object",
       entries |-> <<[id |-> "in1", value |-> Str(<<Lit("dogs")>>)]>>],
      [kind |-> "object",
       entries |-> <<[id |-> "in1", value |-> Num("5")],
                     [id |-> "in2", value |-> Str(<<Lit("cats")>>)]>>] }

\* The `llmConfig` of the requests: missing, or with or without an API key
\* and with or without templates.
ApiKeyChoices == {NoName, Some("key-1"), Some("key-2")}
LlmChoices ==
    { [kind |-> "missing", apiKey |-> NoName, model |-> NoName, system |-> None,
       prompt |-> None] }
    \cup
    { [kind |-> "object", apiKey |-> k, model |-> NoName, system |-> t[1],
       prompt |-> t[2]] :
        k \in ApiKeyChoices,
        t \in { <<None, None>>,
                 <<Some(<<Lit("Talk about "), Ph("topic")>>),
                   Some(<<Lit("Explain "), Ph("topic"), Lit(" in "), Ph("style")>>)>> } }

Bodies == [nodes : NodesChoices, inputs : InputsChoices, llmConfig : LlmChoices]

\* The generated texts: the empty text and one of two characters.
Texts == {<<>>, <<"h", "i">>}

\* What a fetch of the upstream can come to.
Outcomes ==
    {Rejected, NothingGenerated}
    \cup {Generated(t) : t \in Texts}
    \cup { Refused(404, <<Lit("model not found")>>),
            Refused(400, <<Lit("API key"), Lit(" not valid")>>),
            Refused(429, <<Lit("quota exhausted")>>),
            Refused(500, <<Lit("internal error")>>) }

Init ==
    /\ CacheIdle
    /\ DagIdle
    /\ envKey \in {"", "env-key"}
    /\ req = [r \in Reqs |-> Idle]
    /\ served = NoneServed
    /\ returned = NoneReturned
    /\ AuxIdle

\* History: the fault a request body has by the taxonomy of the design.
ShapeOf(body) ==
    IF body.nodes.kind # "list" THEN "nodes"
    ELSE IF nodesOfType(body.nodes.list, "customInput") = <<>> THEN "no-input"
    ELSE IF nodesOfType(body.nodes.list, "customOutput") = <<>> THEN "no-output"
    ELSE "complete"

\* History: the ids of the output nodes of a request body.
OutIdsOf(body) ==
    {body.nodes.list[i].id : i \in {j \in 1..Len(body.nodes.list) :
                                        body.nodes.list[j].type = "customOutput"}}

\* History: the class of an error the handler threw before its first await.
ClassOf(message) ==
    IF message \in {MsgInvalidNodes, MsgNoInputNodes, MsgNoOutputNodes}
    THEN "validation"
    ELSE IF message = MsgNoApiKey THEN "auth"
    ELSE "other"

\* res.status(statusCode).json({error, success: false})
Failed(q, message, class) ==
    [q EXCEPT !.pc = "done", !.status = statusCode(message), !.error = message,
              !.class = class]

\* res.json({success: true, outputs, metadata})
Succeeded(q, geminiResponse) ==
    [q EXCEPT !.pc = "done", !.status = 200, !.text = geminiResponse,
              !.outputs = outputsOf(q.outputNodes, geminiResponse),
              !.tokensUsed = Len(geminiResponse)]

\* A request arrives: the Joi middleware, then the handler up to the answer
\* or to the fetch of its first upstream call.
Handle(r, body) ==
    /\ req[r].pc = "idle"
    /\ LET q0 == [Idle EXCEPT
                    !.shape = ShapeOf(body),
                    !.keyless = (~body.llmConfig.apiKey.has /\ envKey = ""),
                    !.outIds = OutIdsOf(body)]
       IN  IF ~joiValid(body)
           THEN /\ req' = [req EXCEPT ![r] =
                            [q0 EXCEPT !.pc = "done", !.status = 400,
                                       !.error = MsgValidationFailed,
                                       !.class = "validation"]]
                /\ UNCHANGED cache
           ELSE LET value == joiValue(body)
                    start == runWorkflowStart(value, envKey, cache, now)
                    q1 == [q0 EXCEPT
                            !.model = start.model, !.system = start.system,
                            !.prompt = start.prompt, !.apiKey = start.apiKey,
                            !.key = start.key,
                            !.outputNodes = nodesOfType(value.nodes.list, "customOutput")]
                IN  IF start.kind = "error"
                    THEN /\ req' = [req EXCEPT ![r] =
                                     Failed(q0, start.message, ClassOf(start.message))]
                         /\ UNCHANGED cache
                    ELSE /\ cache' = getFromCacheEffect(cache, start.key, now)
                         /\ req' = [req EXCEPT ![r] =
                                IF start.kind = "hit"
                                THEN Succeeded(q1, start.data)
                                ELSE [q1 EXCEPT !.pc = "fetch",
                                                !.retries = DEFAULT_RETRIES,
                                                !.calls = 1]]
    /\ UNCHANGED <<now, lastOp, stored, dagVars, envKey, served, returned, auxVars>>

\* A request arrives while no other is in progress.
Receive(r, body) ==
    /\ \A s \in Reqs : req[s].pc = "idle"
    /\ Handle(r, body)

\* The fetch of a request settles and callGeminiAPI runs on: to its retry
\* delay, to its return (the handler caches the text and answers), or to its
\* throw (the handler answers the error).
Settle(r, o) ==
    /\ req[r].pc = "fetch"
    /\ LET q == [req[r] EXCEPT !.last = [kind |-> o.kind, status |-> o.status,
                                         candidates |-> o.candidates]]
           step == geminiStep(o, q.retries)
       IN  IF step.do = "retry"
           THEN /\ req' = [req EXCEPT ![r] = [q EXCEPT !.pc = "delay"]]
                /\ UNCHANGED cache
           ELSE IF step.do = "return"
           THEN /\ cache' = setCache(cache, q.key, step.text, now)
                /\ req' = [req EXCEPT ![r] = Succeeded(q, step.text)]
           ELSE /\ req' = [req EXCEPT ![r] = Failed(q, step.message, "upstream")]
                /\ UNCHANGED cache
    /\ UNCHANGED <<now, lastOp, stored, dagVars, envKey, served, auxVars>>

FetchSettles(r, o) ==
    /\ Settle(r, o)
    /\ UNCHANGED returned

\* The 1-second timer of a retry fires: callGeminiAPI calls itself with one
\* retry less, and fetches.
DelayElapses(r) ==
    /\ req[r].pc = "delay"
    /\ req' = [req EXCEPT ![r] = [@ EXCEPT !.pc = "fetch", !.retries = @ - 1,
                                            !.delays = @ + 1, !.calls = @ + 1,
                                            !.last = NoOutcome]]
    /\ UNCHANGED <<cache, now, lastOp, stored, dagVars, envKey, served, returned, auxVars>>

\* The client has its answer; history keeps the request if it was served.
Forget(r) ==
    /\ req[r].pc = "done"
    /\ req' = [req EXCEPT ![r] = Idle]
    /\ served' = IF req[r].status = 200
                  THEN [has |-> TRUE, model |-> req[r].model,
                        system |-> req[r].system, prompt |-> req[r].prompt,
                        apiKey |-> req[r].apiKey, key |-> req[r].key,
                        outputs |-> req[r].outputs]
                  ELSE served
    /\ UNCHANGED <<cache, now, lastOp, stored, dagVars, envKey, returned, auxVars>>

Next ==
    \/ \E r \in Reqs, body \in Bodies : Receive(r, body)
    \/ \E r \in Reqs, o \in Outcomes : FetchSettles(r, o)
    \/ \E r \in Reqs : DelayElapses(r)
    \/ \E r \in Reqs : Forget(r)

Spec == Init /\ [][Next]_vars

----------------------------------------------------------------------------
(* The retry policy of callGeminiAPI *)

\* A response that callGeminiAPI may retry: not a success, status 429 or
\* at least 500.
Retryable(o) ==
    o.kind = "response" /\ (o.status = 429 \/ o.status >= 500)

\* A response that fails the call whatever retries remain: another
\* non-success status, or a success without a generated candidate.
Terminal(o) ==
    /\ o.kind = "response"
    /\ \/ ~(o.status >= 200 /\ o.status <= 299) /\ ~Retryable(o)
       \/ (o.status >= 200 /\ o.status <= 299) /\ ~o.candidates

\* C1: callGeminiAPI retries only a non-success response of status 429 or
\* >= 500, at most 2 more times (3 attempts in all), one delay before each
\* retry: a call that has made k attempts has waited exactly k-1 delays, a
\* success on attempt k is answered after k-1 delays, a retryable failure
\* is final only on the third attempt, and any other status or an empty
\* generation ends the call at once, with no retry after it.
C1_RetryPolicy ==
    \A r \in Reqs :
        LET q == req[r]
        IN  /\ q.calls <= 3 /\ q.delays <= 2
            /\ q.calls > 0 => q.delays = q.calls - 1
            /\ q.pc = "delay" => Retryable(q.last) /\ q.calls < 3
            /\ (q.pc = "done" /\ q.last.kind = "response" /\ q.last.status = 200
                    /\ q.last.candidates)
                  => q.status = 200 /\ q.delays = q.calls - 1
            /\ (q.pc = "done" /\ Retryable(q.last))
                  => q.calls = 3 /\ q.status # 200
            /\ Terminal(q.last) => q.pc = "done" /\ q.status # 200

\* The case of C1: 429, 429, then a success, answered after two delays.
C1_Witness ==
    \E r \in Reqs :
        /\ req[r].pc = "done" /\ req[r].status = 200
        /\ req[r].calls = 3 /\ req[r].delays = 2

----------------------------------------------------------------------------
(* Two requests, one after the other.  The clock of this specification     *)
(* stands still: every two of its requests are in one TTL window.          *)

\* The request in slot r has the model and the resolved prompts of the
\* request served last before it.
SameAsServed(r) ==
    /\ served.has
    /\ req[r].key # <<>>
    /\ req[r].model = served.model
    /\ req[r].system = served.system
    /\ req[r].prompt = served.prompt

\* C2: when two requests with the same model and the same resolved system
\* and user prompts are both answered with success in one TTL window, the
\* second has the outputs of the first and has made no upstream call.
C2_Idempotent ==
    \A r \in Reqs :
        (req[r].pc = "done" /\ req[r].status = 200 /\ SameAsServed(r))
            => req[r].outputs = served.outputs /\ req[r].calls = 0

\* The API keys of the model.
ApiKeyTexts == {"key-1", "key-2", "env-key"}

\* C3: two requests with the same model, resolved system prompt and
\* resolved user prompt have the same cache key, whatever their API keys;
\* a cache key has the members model, system and prompt and no other, none
\* of them holds an API key, and a cache entry has no field but key, data
\* and timestamp.
C3_KeyWithoutApiKey ==
    /\ \A r \in Reqs : SameAsServed(r) => req[r].key = served.key
    /\ \A r \in Reqs : \A i \in 1..Len(req[r].key) :
          /\ req[r].key[i].name \in {"model", "system", "prompt"}
          /\ \A j \in 1..Len(req[r].key[i].text) :
                req[r].key[i].text[j].s \notin ApiKeyTexts
    /\ \A e \in 1..Len(cache) :
          /\ DOMAIN cache[e] = {"key", "data", "timestamp"}
          /\ \A i \in 1..Len(cache[e].key) :
                /\ cache[e].key[i].name \in {"model", "system", "prompt"}
                /\ \A j \in 1..Len(cache[e].key[i].text) :
                      cache[e].key[i].text[j].s \notin ApiKeyTexts

\* The case of C3: a request like the one served last but for its API key,
\* with an entry in the cache.
C3_Witness ==
    \E r \in Reqs :
        /\ SameAsServed(r)
        /\ req[r].apiKey # served.apiKey
        /\ cache # <<>>

----------------------------------------------------------------------------
(* The status of an answer *)

\* C4: a request whose nodes are missing or no list, or hold no input node
\* or no output node, is answered 400 and makes no upstream call.
C4_StructuralIs400 ==
    \A r \in Reqs :
        (req[r].pc = "done" /\ req[r].shape \in {"nodes", "no-input", "no-output"})
            => req[r].status = 400 /\ req[r].calls = 0

\* C5: a request with no API key of its own, on a server with no default
\* key, is answered 401 and makes no upstream call; stated here for the
\* requests with input and output nodes only, whatever else they hold.
C5_KeylessIs401 ==
    \A r \in Reqs :
        (req[r].pc = "done" /\ req[r].keyless /\ req[r].shape = "complete")
            => req[r].status = 401 /\ req[r].calls = 0

\* C6: a failure of the upstream call (a non-success status with no retry
\* left, an empty generation, a fetch that rejects) is answered 502, and a
\* failure of no class is answered 500.
C6_StatusByClass ==
    \A r \in Reqs :
        req[r].pc = "done" =>
            /\ req[r].class = "upstream" => req[r].status = 502
            /\ req[r].class = "other" => req[r].status = 500

----------------------------------------------------------------------------
(* The cache in /run-workflow *)

\* The request of slot r arrives in this step and gets as far as the probe
\* of the cache.
Probes(r) ==
    req[r].pc = "idle" /\ req'[r].pc # "idle" /\ req'[r].key # <<>>

\* C11: a request that finds a fresh entry under its key makes no upstream
\* call, a request that finds none makes one, and the cache changes only
\* when an upstream call has come back with success: it then holds the text
\* under the key of the request, and a request answered with a failure
\* leaves the cache as it was.
C11_ProbeAndPopulate ==
    [][\A r \in Reqs :
          /\ Probes(r) =>
                IF cacheFresh(cache, req'[r].key, now)
                THEN req'[r].calls = 0 /\ req'[r].pc = "done"
                ELSE req'[r].calls = 1 /\ req'[r].pc = "fetch"
          /\ (req[r].pc # "done" /\ req'[r].pc = "done" /\ req'[r].status # 200)
                => cache' = cache
          /\ (req[r].pc # req'[r].pc /\ cache' # cache)
                => /\ req[r].pc = "fetch" /\ req'[r].status = 200
                   /\ \E i \in 1..Len(cache') :
                         /\ cache'[i].key = req[r].key
                         /\ cache'[i].data = req'[r].text
      ]_vars

\* C24: a request with an API key whose cache key has a fresh entry is
\* answered 200 with the text of that entry and makes no upstream call, so
\* its key goes nowhere and its answer is the same for every key.
C24_WarmCacheIgnoresKey ==
    [][\A r \in Reqs :
          (Probes(r) /\ req'[r].apiKey # ""
                     /\ cacheFresh(cache, req'[r].key, now))
            => /\ req'[r].pc = "done"
               /\ req'[r].status = 200
               /\ req'[r].calls = 0
               /\ \E i \in 1..Len(cache) :
                     /\ cache[i].key = req'[r].key
                     /\ cache[i].data = req'[r].text
      ]_vars

----------------------------------------------------------------------------
(* Concurrent requests: a request may arrive while another awaits its       *)
(* upstream call or its retry delay.                                        *)

\* The concurrent requests: complete, with one output node, one input and
\* an API key, with and without templates (two cache keys between them).
ConcBodies ==
    {b \in Bodies :
        /\ ShapeOf(b) = "complete" /\ Cardinality(OutIdsOf(b)) = 1
        /\ b.inputs.kind = "object" /\ Len(b.inputs.entries) = 1
        /\ b.llmConfig.kind = "object" /\ b.llmConfig.apiKey = Some("key-1")}

\* What a fetch of a concurrent request can come to: a text, a status that
\* is retried, a status that is not.
ConcOutcomes ==
    {o \in Outcomes : o.kind = "response" /\ o.status \in {200, 429, 404}
                        /\ (o.status = 200 => o.candidates)}

\* The fetch of a request settles, and history keeps the text of a call
\* that returned.
SettleRecorded(r, o) ==
    /\ Settle(r, o)
    /\ returned' =
          IF geminiStep(o, req[r].retries).do = "return"
          THEN [pairs |-> returned.pairs \cup {<<req[r].key, o.text>>},
                last |-> <<req[r].key, o.text>>]
          ELSE returned

NextConc ==
    \/ \E r \in Reqs, body \in ConcBodies : Handle(r, body)
    \/ \E r \in Reqs, o \in ConcOutcomes : SettleRecorded(r, o)
    \/ \E r \in Reqs : DelayElapses(r)
    \/ \E r \in Reqs : Forget(r)

SpecConc == Init /\ [][NextConc]_vars

\* C12: under every interleaving, each cache entry is whole (a key, a text
\* and a timestamp), is the only entry of its key, and holds a text that a
\* successful upstream call returned for that key; and the text of the
\* latest such call is the one the cache holds under its key (the later
\* write wins).
C12_EntriesFromUpstream ==
    /\ \A i \in 1..Len(cache) :
          /\ DOMAIN cache[i] = {"key", "data", "timestamp"}
          /\ cache[i].data \in Texts
          /\ <<cache[i].key, cache[i].data>> \in returned.pairs
          /\ \A j \in 1..Len(cache) : cache[j].key = cache[i].key => j = i
    /\ returned.last # <<>> =>
          \E i \in 1..Len(cache) :
              cache[i].key = returned.last[1] /\ cache[i].data = returned.last[2]

\* The case of C12: two requests met the same miss and both called the
\* upstream; the first to return wrote a text, the second wrote the empty
\* text over it.
C12_Witness ==
    \E r \in Reqs, s \in Reqs :
        /\ r # s
        /\ req[r].pc = "done" /\ req[s].pc = "done"
        /\ req[r].status = 200 /\ req[s].status = 200
        /\ req[r].key = req[s].key
        /\ req[r].calls >= 1 /\ req[s].calls >= 1
        /\ req[r].text # <<>> /\ req[s].text = <<>>
        /\ returned.last = <<req[s].key, <<>> >>
        /\ \E i \in 1..Len(cache) :
              cache[i].key = req[s].key /\ cache[i].data = <<>>

----------------------------------------------------------------------------
(* The template loop on its own *)

\* The input nodes: in1 named topic and in2 without a name, or in1 alone.
TplNodeLists ==
    { <<InNode("in1", "topic"), InNode("in2", "")>>, <<InNode("in1", "topic")>> }

\* The values of the inputs: a word, a number, a text with placeholder
\* syntax in it, a text with a replacement pattern in it.
TplValues ==
    { Str(<<Lit("dogs")>>), Num("5"), Str(<<Ph("style")>>), Str(<<Lit("$&")>>) }

\* The keys of `inputs`: the two nodes and a key that names no node.
TplIds == {"in1", "in2", "zz"}

\* Object.entries(inputs): up to MaxInputs entries, no key twice.
TplEntryLists ==
    UNION { { q \in [1..n -> [id : TplIds, value : TplValues]] :
                \A i \in 1..n, j \in 1..n : q[i].id = q[j].id => i = j } :
            n \in 0..MaxInputs }

TplSystems == { DEFAULT_SYSTEM, <<Lit("Talk about "), Ph("topic")>> }

TplPrompts ==
    { <<>>, <<Lit("Hello")>>, <<Ph("topic")>>,
      <<Lit("Explain "), Ph("topic"), Lit(" in "), Ph("in2")>> }

InitTemplate ==
    /\ CacheIdle
    /\ DagIdle
    /\ ReqsIdle
    /\ tpl \in [nodes : TplNodeLists, entries : TplEntryLists, system : TplSystems,
                 prompt : TplPrompts, out : {NoTplOut}]
    /\ TelIdle
    /\ LimIdle
    /\ StoreIdle
    /\ SavedIdle
    /\ AutoIdle
    /\ UiIdle
    /\ ApiIdle

\* The loop runs over the entries of inputs.
ResolveTemplates ==
    /\ ~tpl.out.done
    /\ LET res == templateLoop(tpl.entries, 1, tpl.nodes, tpl.system, Str(tpl.prompt))
       IN  tpl' = [tpl EXCEPT !.out = [done |-> TRUE, ok |-> res.ok,
                                       system |-> res.system, prompt |-> res.prompt]]
    /\ UNCHANGED <<cacheVars, dagVars, reqVars, tel, lim, store, saved, auto, ui, api>>

NextTemplate == ResolveTemplates

SpecTemplate == InitTemplate /\ [][NextTemplate]_vars

\* The entries of inputs whose key is the id of an input node.
Resolved == SelectSeq(tpl.entries, LAMBDA e : findNode(tpl.nodes, e.id) # 0)

\* The placeholder name of an input node: its inputName, or its id.
NameOf(id) ==
    LET n == tpl.nodes[findNode(tpl.nodes, id)]
    IN  IF n.inputName # "" THEN n.inputName ELSE id

\* The text with the value put for every occurrence of {{name}}.
RECURSIVE PutValue(_, _, _)
PutValue(text, name, value) ==
    IF text = <<>> THEN <<>>
    ELSE (IF Head(text) = Ph(name) THEN value.s ELSE <<Head(text)>>)
            \o PutValue(Tail(text), name, value)

\* The template after the substitution of the resolved inputs, in order.
RECURSIVE Substituted(_, _)
Substituted(text, entries) ==
    IF entries = <<>> THEN text
    ELSE Substituted(PutValue(text, NameOf(Head(entries).id), Head(entries).value),
                     Tail(entries))

\* C13: the loop ends with a user prompt; if the user template with all
\* resolved inputs substituted holds no placeholder syntax, the user prompt
\* is the value of the last resolved input alone, and if it holds some, the
\* user prompt is the substituted template.
C13_FinalUserPrompt ==
    tpl.out.done =>
        /\ tpl.out.ok
        /\ LET final == Substituted(tpl.prompt, Resolved)
           IN  IF includesBraces(final)
               THEN tpl.out.prompt = Str(final)
               ELSE Resolved # <<>> =>
                        tpl.out.prompt = Resolved[Len(Resolved)].value

\* C22: for every body that passes the schema, values that are numbers and
\* several inputs included, the loop ends without a fault and the user
\* prompt it hands to the cache key and to the upstream call is a string.
C22_PromptIsString ==
    tpl.out.done =>
        /\ tpl.out.ok
        /\ tpl.out.prompt.type = "string"

\* C14: the loop ends with the system template in which every resolved
\* input's value stands for every occurrence of its placeholder, and with
\* the same for the user template where it is kept (placeholder syntax
\* remains in it); an entry whose key names no input node changes nothing.
C14_Substitution ==
    tpl.out.done =>
        /\ tpl.out.ok
        /\ tpl.out.system = Substituted(tpl.system, Resolved)
        /\ includesBraces(Substituted(tpl.prompt, Resolved))
              => tpl.out.prompt = Str(Substituted(tpl.prompt, Resolved))

----------------------------------------------------------------------------
(* The answer of a successful request *)

----------------------------------------------------------------------------
(* callGeminiAPI on its own, with its reports to the logger *)

\* The models callGeminiAPI is called with.
TelModels == {DEFAULT_MODEL, "gemini-pro"}

\* Date.now() - startTime when a fetch has settled: the same millisecond,
\* or a later one.
Elapsed == {0, 1}

\* The duration of a frame that has waited its retry delay, in milliseconds.
RETRY_DELAY == 1000

\* logger.logApiCall('Google Gemini', model, duration, success); `attempt`
\* is history: the frame that reports.
Report(attempt, duration, success) ==
    [provider |-> "Google Gemini", model |-> tel.model, duration |-> duration,
     success |-> success, attempt |-> attempt]

\* History: an attempt, with the status of its response (0 for none).
Attempt(o, success) == [success |-> success, status |-> o.status]

\* The `finally` block: a report of success if the duration is positive.
finallyReports(attempt, duration) ==
    IF duration > 0 THEN <<Report(attempt, duration, TRUE)>> ELSE <<>>

InitTelemetry ==
    /\ CacheIdle
    /\ DagIdle
    /\ ReqsIdle
    /\ TplIdle
    /\ TelIdle
    /\ LimIdle
    /\ StoreIdle
    /\ SavedIdle
    /\ AutoIdle
    /\ UiIdle
    /\ ApiIdle

\* callGeminiAPI({model, system, prompt, apiKey}) is called and fetches.
TelCall(model) ==
    /\ tel.pc = "idle"
    /\ tel' = [NoTel EXCEPT !.pc = "fetch", !.model = model,
                            !.retries = DEFAULT_RETRIES]
    /\ UNCHANGED <<cacheVars, dagVars, reqVars, tpl, lim, store, saved, auto, ui, api>>

\* The fetch of the current frame settles.  A frame that throws runs its
\* catch block (a report of failure) and then its finally block; a frame
\* that returns a text runs its finally block; a frame that retries starts
\* its delay.
TelSettle(o, elapsed) ==
    /\ tel.pc = "fetch"
    /\ LET step == geminiStep(o, tel.retries)
           n == Len(tel.attempts) + 1
       IN  IF step.do = "retry"
           THEN tel' = [tel EXCEPT !.pc = "delay",
                                   !.attempts = Append(@, Attempt(o, FALSE))]
           ELSE IF step.do = "return"
           THEN tel' = [tel EXCEPT
                    !.pc = "done", !.attempts = Append(@, Attempt(o, TRUE)),
                    !.log = @ \o finallyReports(n, elapsed),
                    !.result = [kind |-> "text", text |-> step.text, message |-> <<>>],
                    !.due = [kind |-> "text", text |-> o.text, message |-> <<>>]]
           ELSE tel' = [tel EXCEPT
                    !.pc = "done", !.attempts = Append(@, Attempt(o, FALSE)),
                    !.log = @ \o <<Report(n, elapsed, FALSE)>>
                              \o finallyReports(n, elapsed),
                    !.result = [kind |-> "error", text |-> <<>>, message |-> step.message],
                    !.due = [kind |-> "error", text |-> <<>>, message |-> step.message]]
    /\ UNCHANGED <<cacheVars, dagVars, reqVars, tpl, lim, store, saved, auto, ui, api>>

\* The delay is over: `return callGeminiAPI({..., retries: retries - 1})`
\* starts the next frame, which runs to its fetch, and the finally block of
\* the returning frame runs.
TelDelay ==
    /\ tel.pc = "delay"
    /\ tel' = [tel EXCEPT !.pc = "fetch", !.retries = @ - 1,
                          !.log = @ \o finallyReports(Len(tel.attempts), RETRY_DELAY)]
    /\ UNCHANGED <<cacheVars, dagVars, reqVars, tpl, lim, store, saved, auto, ui, api>>

NextTelemetry ==
    \/ \E m \in TelModels : TelCall(m)
    \/ \E o \in Outcomes, e \in Elapsed : TelSettle(o, e)
    \/ TelDelay

SpecTelemetry == InitTelemetry /\ [][NextTelemetry]_vars

\* The reports of attempt n.
ReportsOf(n) == SelectSeq(tel.log, LAMBDA e : e.attempt = n)

\* C16: when callGeminiAPI has delivered, every attempt it made has been
\* reported exactly once, with the provider and the model of the call, and
\* with the flag true if and only if the attempt succeeded; and what it
\* delivered is the text or the error of its last attempt.
C16_OneReportPerAttempt ==
    tel.pc = "done" =>
        /\ \A n \in 1..Len(tel.attempts) :
              /\ Len(ReportsOf(n)) = 1
              /\ ReportsOf(n)[1].success = tel.attempts[n].success
              /\ ReportsOf(n)[1].provider = "Google Gemini"
              /\ ReportsOf(n)[1].model = tel.model
        /\ tel.result = tel.due

----------------------------------------------------------------------------
(* The rate limiters in front of the routes, for one client.  The counting  *)
(* of a limiter is that of express-rate-limit 7 with its memory store: a    *)
(* window per client from its first counted request, every request counted, *)
(* a request answered 429 when its count is above max.                      *)

\* The store counts a request at time t.
hit(w, t, window) ==
    IF w.hits = 0 \/ t >= w.reset
    THEN [hits |-> 1, reset |-> t + window]
    ELSE [hits |-> w.hits + 1, reset |-> w.reset]

\* The limiter answers 429 without calling next().
blocked(w, max) == w.hits > max

\* A chain with the general limiter alone in front of /run-workflow.
generalOnlyChain(l, t) ==
    LET gen1 == hit(l.gen, t, GEN_WINDOW)
    IN  [exec |-> l.exec, gen |-> gen1,
         verdict |-> IF blocked(gen1, GEN_MAX) THEN "rejected" ELSE "handler"]

\* app.use('/run-workflow', workflowLimiter); app.use(limiter): a request
\* to /run-workflow goes through the execution limiter, then through the
\* general limiter, then to the route.
runWorkflowChain(l, t) ==
    LET exec1 == hit(l.exec, t, EXEC_WINDOW)
        gen1 == hit(l.gen, t, GEN_WINDOW)
    IN  IF blocked(exec1, EXEC_MAX)
        THEN [exec |-> exec1, gen |-> l.gen, verdict |-> "rejected"]
        ELSE [exec |-> exec1, gen |-> gen1,
              verdict |-> IF blocked(gen1, GEN_MAX) THEN "rejected" ELSE "handler"]

\* A request to another route goes through the general limiter alone.
otherChain(l, t) ==
    LET gen1 == hit(l.gen, t, GEN_WINDOW)
    IN  [exec |-> l.exec, gen |-> gen1,
         verdict |-> IF blocked(gen1, GEN_MAX) THEN "rejected" ELSE "route"]

\* A window can count one more request in the model.
Countable(w, t, max) == w.hits = 0 \/ t >= w.reset \/ w.hits < max + MaxOver

\* History: the requests let through in the current window of a limiter.
LetThrough(count, before, after, through) ==
    (IF after.reset # before.reset THEN 0 ELSE count) + (IF through THEN 1 ELSE 0)

InitLimiter ==
    /\ CacheIdle
    /\ DagIdle
    /\ ReqsIdle
    /\ TplIdle
    /\ TelIdle
    /\ LimIdle
    /\ StoreIdle
    /\ SavedIdle
    /\ AutoIdle
    /\ UiIdle
    /\ ApiIdle

\* The client sends POST /run-workflow.
LimRunWorkflow ==
    /\ Countable(lim.exec, lim.clock, EXEC_MAX)
    /\ Countable(lim.gen, lim.clock, GEN_MAX)
    /\ LET c == runWorkflowChain(lim, lim.clock)
       IN  lim' = [lim EXCEPT
                    !.exec = c.exec, !.gen = c.gen, !.last = c.verdict,
                    !.reachedExec = LetThrough(@, lim.exec, c.exec, c.verdict = "handler"),
                    !.passedGen = LetThrough(@, lim.gen, c.gen,
                                             c.verdict = "handler" /\ c.gen # lim.gen)]
    /\ UNCHANGED <<cacheVars, dagVars, reqVars, tpl, tel, store, saved, auto, ui, api>>

\* The client sends a request to another route.
LimOther ==
    /\ Countable(lim.gen, lim.clock, GEN_MAX)
    /\ LET c == otherChain(lim, lim.clock)
       IN  lim' = [lim EXCEPT
                    !.gen = c.gen, !.last = c.verdict,
                    !.passedGen = LetThrough(@, lim.gen, c.gen, c.verdict = "route")]
    /\ UNCHANGED <<cacheVars, dagVars, reqVars, tpl, tel, store, saved, auto, ui, api>>

\* A minute passes.
LimTick ==
    /\ lim.clock < MaxClock
    /\ lim' = [lim EXCEPT !.clock = @ + 1]
    /\ UNCHANGED <<cacheVars, dagVars, reqVars, tpl, tel, store, saved, auto, ui, api>>

NextLimiter ==
    \/ LimRunWorkflow
    \/ LimOther
    \/ LimTick

SpecLimiter == InitLimiter /\ [][NextLimiter]_vars

C7_DagIffAcyclic ==
    dagResult # "none" =>
        /\ dagResult \in {"true", "false"}
        /\ dagResult = "true" <=> ~HasDirectedCycle(ListedEdges)

\* Whether the edge list holds a self-loop, on any id or on a listed node.
HasSelfLoop == \E i \in 1..Len(dagEdges) : dagEdges[i].source = dagEdges[i].target
HasListedSelfLoop ==
    \E i \in 1..Len(dagEdges) :
        dagEdges[i].source = dagEdges[i].target /\ dagEdges[i].source \in Listed

MaxSteps == 6
MaxTimedSteps == 4

\* Ids getNodeID hands out before the counter is cleared; the canvas holds
\* as many nodes.
NodeIdPool == {1, 2}

\* const MAX_HISTORY = 50, scaled.
MAX_HISTORY == 3

\* A node as the canvas creates it: no `selected` key yet, the drop
\* position, an empty data field.
NewNode(id) == [id |-> id, selected |-> "unset", position |-> 0, field |-> 0]

\* An edge as onConnect creates it.
NewEdge(source, target) ==
    [source |-> source, target |-> target, selected |-> "unset"]

\* array.slice(-n)
sliceLast(seq, n) ==
    IF Len(seq) <= n THEN seq ELSE SubSeq(seq, Len(seq) - n + 1, Len(seq))

\* updateHistory that leaves the future as it is.
updateHistoryKeepingFuture(state, newNodes, newEdges) ==
    LET newPresent == [nodes |-> newNodes, edges |-> newEdges]
        newPast == sliceLast(Append(state.history.past, state.history.present),
                             MAX_HISTORY)
    IN  IF state.history.present = newPresent
        THEN [history |-> state.history, canUndo |-> state.canUndo,
              canRedo |-> state.canRedo]
        ELSE [history |-> [past |-> newPast, present |-> newPresent,
                           future |-> state.history.future],
              canUndo |-> Len(newPast) > 0,
              canRedo |-> FALSE]

\* updateHistory with newPast never trimmed.
updateHistoryUntrimmed(state, newNodes, newEdges) ==
    LET newPresent == [nodes |-> newNodes, edges |-> newEdges]
        newPast == Append(state.history.past, state.history.present)
    IN  IF state.history.present = newPresent
        THEN [history |-> state.history, canUndo |-> state.canUndo,
              canRedo |-> state.canRedo]
        ELSE [history |-> [past |-> newPast, present |-> newPresent,
                           future |-> <<>>],
              canUndo |-> Len(newPast) > 0,
              canRedo |-> FALSE]

\* updateHistory(state, newNodes, newEdges): the history keys of the new
\* state; the keys the code leaves out of its result keep their value.
updateHistory(state, newNodes, newEdges) ==
    LET newPresent == [nodes |-> newNodes, edges |-> newEdges]
        newPast == sliceLast(Append(state.history.past, state.history.present),
                             MAX_HISTORY)
    IN  IF state.history.present = newPresent
        THEN [history |-> state.history, canUndo |-> state.canUndo,
              canRedo |-> state.canRedo]
        ELSE [history |-> [past |-> newPast, present |-> newPresent,
                           future |-> <<>>],
              canUndo |-> Len(newPast) > 0,
              canRedo |-> FALSE]

\* set(partial) for the keys nodes, edges and the history keys.
withGraph(state, newNodes, newEdges, h) ==
    [state EXCEPT !.nodes = newNodes, !.edges = newEdges,
                  !.history = h.history, !.canUndo = h.canUndo,
                  !.canRedo = h.canRedo]

\* reactflow applyNodeChanges / applyEdgeChanges: an element with a remove
\* change is dropped; the other changes of an element are applied in order.
RECURSIVE changeItem(_, _)
changeItem(item, changes) ==
    IF changes = <<>> THEN item
    ELSE LET c == Head(changes)
             next == IF c.id # item.id THEN item
                     ELSE IF c.type = "select"
                          THEN [item EXCEPT !.selected = c.selected]
                     ELSE IF c.type = "position"
                          THEN [item EXCEPT !.position = c.position]
                     ELSE item
         IN  changeItem(next, Tail(changes))

removes(item, changes) ==
    \E i \in 1..Len(changes) :
        changes[i].type = "remove" /\ changes[i].id = item.id

RECURSIVE applyChanges(_, _)
applyChanges(changes, items) ==
    IF items = <<>> THEN <<>>
    ELSE LET rest == applyChanges(changes, Tail(items))
         IN  IF removes(Head(items), changes) THEN rest
             ELSE <<changeItem(Head(items), changes)>> \o rest

applyNodeChanges(changes, nodes) == applyChanges(changes, nodes)

\* Edges are identified by their end points.
EdgeId(e) == <<e.source, e.target>>
applyEdgeChanges(changes, edges) ==
    LET keyed == [i \in 1..Len(edges) |->
                    [id |-> EdgeId(edges[i]), selected |-> edges[i].selected,
                     position |-> 0, edge |-> edges[i]]]
        out == applyChanges(changes, keyed)
    IN  [i \in 1..Len(out) |-> [out[i].edge EXCEPT !.selected = out[i].selected]]

\* reactflow addEdge: an edge between the same end points is not added
\* twice.
addEdge(edge, edges) ==
    IF \E i \in 1..Len(edges) : EdgeId(edges[i]) = EdgeId(edge)
    THEN edges
    ELSE Append(edges, edge)

NodeIdsOf(state) == {state.nodes[i].id : i \in 1..Len(state.nodes)}
EdgeIdsOf(state) == {EdgeId(state.edges[i]) : i \in 1..Len(state.edges)}

\* The changes reactflow reports for the elements on the canvas.
SelectValues == {"true", "false"}
Positions == {0, 1}
NodeChanges(state) ==
    LET ids == NodeIdsOf(state)
    IN  [type : {"select"}, id : ids, selected : SelectValues, position : {0}]
        \cup [type : {"position"}, id : ids, selected : {""}, position : Positions]
        \cup [type : {"remove"}, id : ids, selected : {""}, position : {0}]
EdgeChanges(state) ==
    LET ids == EdgeIdsOf(state)
    IN  [type : {"select"}, id : ids, selected : SelectValues, position : {0}]
        \cup [type : {"remove"}, id : ids, selected : {""}, position : {0}]
ChangeLists(cs) == {<<c>> : c \in cs} \cup {<<c, d>> : c \in cs, d \in cs}

\* onNodesChange keeping a history entry for every change but a select.
nodesShouldSaveHistoryButSelect(changes) ==
    \E i \in 1..Len(changes) : changes[i].type # "select"

\* changes.some(change => change.type !== 'select' && change.type !== 'position')
nodesShouldSaveHistory(changes) ==
    \E i \in 1..Len(changes) :
        changes[i].type # "select" /\ changes[i].type # "position"

\* changes.some(change => change.type !== 'select')
edgesShouldSaveHistory(changes) ==
    \E i \in 1..Len(changes) : changes[i].type # "select"

\* Field values a node form writes.
FieldValues == {0, 1}

\* Workflows the application loads: an empty one and a saved one.
LoadChoices ==
    {[nodes |-> <<>>, edges |-> <<>>],
     [nodes |-> <<NewNode(1)>>, edges |-> <<>>]}

InitStore ==
    /\ CacheIdle
    /\ DagIdle
    /\ ReqsIdle
    /\ TplIdle
    /\ TelIdle
    /\ LimIdle
    /\ StoreIdle
    /\ SavedIdle
    /\ AutoIdle
    /\ UiIdle
    /\ ApiIdle

othersThanStore == <<cacheVars, dagVars, reqVars, tpl, tel, lim, saved, ui, api>>

\* Delays of the timers, in units of 100 ms: setTimeout(..., 100),
\* setTimeout(..., 500) and the debounce of 1000.
SHORT_DELAY == 1
LONG_DELAY == 5
DEBOUNCE_DELAY == 10

\* setTimeout(() => autoSaveWorkflow(nodes, edges), delay)
setTimeout(a, delay, nodes, edges) ==
    IF a.storage
    THEN [a EXCEPT !.timers = Append(@, [left |-> delay, nodes |-> nodes,
                                         edges |-> edges, debounced |-> FALSE])]
    ELSE a

\* debouncedAutoSave(nodes, edges): the pending debounced timer is cleared
\* and a new one started.
debouncedAutoSave(a, nodes, edges) ==
    IF a.storage
    THEN [a EXCEPT !.timers =
            Append(SelectSeq(@, LAMBDA t : ~t.debounced),
                   [left |-> DEBOUNCE_DELAY, nodes |-> nodes, edges |-> edges,
                    debounced |-> TRUE])]
    ELSE a

\* The timers updateHistory(state, newNodes, newEdges) leaves: none where
\* it returns early.
updateHistoryTimers(a, state, newNodes, newEdges) ==
    IF state.history.present = [nodes |-> newNodes, edges |-> newEdges]
    THEN a
    ELSE debouncedAutoSave(a, newNodes, newEdges)

\* One more store action has run.
CanStep == store.steps < (IF auto.storage THEN MaxTimedSteps ELSE MaxSteps)
Stepped(state) == [state EXCEPT !.steps = store.steps + 1]

\* getNodeID(type), for the one node type of the model; the caller keeps
\* the id until it adds the node.
getNodeID ==
    /\ CanStep
    /\ store.pending = 0
    /\ store.nodeIDs + 1 \in NodeIdPool
    /\ store' = Stepped([store EXCEPT !.nodeIDs = store.nodeIDs + 1,
                              !.pending = store.nodeIDs + 1])
    /\ UNCHANGED auto
    /\ UNCHANGED othersThanStore

\* addNode(node) with the id getNodeID returned.
addNode ==
    /\ CanStep
    /\ store.pending # 0
    /\ Len(store.nodes) < Cardinality(NodeIdPool)
    /\ LET newNodes == Append(store.nodes, NewNode(store.pending))
           h == updateHistory(store, newNodes, store.edges)
       IN  /\ store' = Stepped([withGraph(store, newNodes, store.edges, h)
                                    EXCEPT !.pending = 0])
           /\ auto' = setTimeout(
                         updateHistoryTimers(auto, store, newNodes, store.edges),
                         SHORT_DELAY, newNodes, store.edges)
    /\ UNCHANGED othersThanStore

\* removeNode(nodeId)
removeNode(nodeId) ==
    /\ CanStep
    /\ LET newNodes == SelectSeq(store.nodes, LAMBDA n : n.id # nodeId)
           newEdges == SelectSeq(store.edges,
                                 LAMBDA e : e.source # nodeId /\ e.target # nodeId)
           h == updateHistory(store, newNodes, newEdges)
       IN  /\ store' = Stepped(withGraph(store, newNodes, newEdges, h))
           /\ auto' = setTimeout(
                         updateHistoryTimers(auto, store, newNodes, newEdges),
                         SHORT_DELAY, newNodes, newEdges)
    /\ UNCHANGED othersThanStore

\* onNodesChange(changes)
onNodesChange(changes) ==
    /\ CanStep
    /\ LET newNodes == applyNodeChanges(changes, store.nodes)
           shouldSaveHistory == nodesShouldSaveHistory(changes)
       IN  /\ store' = Stepped(IF shouldSaveHistory
                    THEN withGraph(store, newNodes, store.edges,
                                   updateHistory(store, newNodes, store.edges))
                    ELSE [store EXCEPT !.nodes = newNodes])
           /\ auto' = IF shouldSaveHistory
                      THEN setTimeout(
                             updateHistoryTimers(auto, store, newNodes, store.edges),
                             LONG_DELAY, newNodes, store.edges)
                      ELSE auto
    /\ UNCHANGED othersThanStore

\* updateNodeField(nodeId, fieldName, fieldValue)
updateNodeField(nodeId, fieldValue) ==
    /\ CanStep
    /\ LET newNodes == [i \in 1..Len(store.nodes) |->
                          IF store.nodes[i].id = nodeId
                          THEN [store.nodes[i] EXCEPT !.field = fieldValue]
                          ELSE store.nodes[i]]
           h == updateHistory(store, newNodes, store.edges)
       IN  /\ store' = Stepped(withGraph(store, newNodes, store.edges, h))
           /\ auto' = setTimeout(
                         updateHistoryTimers(auto, store, newNodes, store.edges),
                         LONG_DELAY, newNodes, store.edges)
    /\ UNCHANGED othersThanStore

\* The state undo() sets: the state itself where there is no past.
undone(state) ==
    IF Len(state.history.past) = 0
    THEN state
    ELSE LET past == state.history.past
             previous == past[Len(past)]
             newPast == SubSeq(past, 1, Len(past) - 1)
         IN  [state EXCEPT
                 !.nodes = previous.nodes,
                 !.edges = previous.edges,
                 !.history = [past |-> newPast, present |-> previous,
                              future |-> <<state.history.present>>
                                           \o state.history.future],
                 !.canUndo = Len(newPast) > 0,
                 !.canRedo = TRUE]

\* The state redo() sets: the state itself where there is no future.
redone(state) ==
    IF Len(state.history.future) = 0
    THEN state
    ELSE LET next == Head(state.history.future)
             newFuture == Tail(state.history.future)
         IN  [state EXCEPT
                 !.nodes = next.nodes,
                 !.edges = next.edges,
                 !.history = [past |-> Append(state.history.past,
                                              state.history.present),
                              present |-> next,
                              future |-> newFuture],
                 !.canUndo = TRUE,
                 !.canRedo = Len(newFuture) > 0]

\* undo()
undo ==
    /\ CanStep
    /\ store' = Stepped(undone(store))
    /\ UNCHANGED auto
    /\ UNCHANGED othersThanStore

\* redo()
redo ==
    /\ CanStep
    /\ store' = Stepped(redone(store))
    /\ UNCHANGED auto
    /\ UNCHANGED othersThanStore

\* loadWorkflow(nodes, edges)
loadWorkflow(nodes, edges) ==
    /\ CanStep
    /\ store' = Stepped(withGraph(store, nodes, edges, updateHistory(store, nodes, edges)))
    /\ auto' = updateHistoryTimers(auto, store, nodes, edges)
    /\ UNCHANGED othersThanStore

\* clearWorkflow()
clearWorkflow ==
    /\ CanStep
    /\ store' = Stepped([withGraph(store, <<>>, <<>>, updateHistory(store, <<>>, <<>>))
                    EXCEPT !.nodeIDs = 0])
    /\ auto' = updateHistoryTimers(auto, store, <<>>, <<>>)
    /\ UNCHANGED othersThanStore

\* onEdgesChange(changes)
onEdgesChange(changes) ==
    /\ CanStep
    /\ LET newEdges == applyEdgeChanges(changes, store.edges)
           shouldSaveHistory == edgesShouldSaveHistory(changes)
       IN  /\ store' = Stepped(IF shouldSaveHistory
                    THEN withGraph(store, store.nodes, newEdges,
                                   updateHistory(store, store.nodes, newEdges))
                    ELSE [store EXCEPT !.edges = newEdges])
           /\ auto' = IF shouldSaveHistory
                      THEN setTimeout(
                             updateHistoryTimers(auto, store, store.nodes, newEdges),
                             LONG_DELAY, store.nodes, newEdges)
                      ELSE auto
    /\ UNCHANGED othersThanStore

\* onConnect(connection)
onConnect(source, target) ==
    /\ CanStep
    /\ LET newEdges == addEdge(NewEdge(source, target), store.edges)
           h == updateHistory(store, store.nodes, newEdges)
       IN  /\ store' = Stepped(withGraph(store, store.nodes, newEdges, h))
           /\ auto' = setTimeout(
                         updateHistoryTimers(auto, store, store.nodes, newEdges),
                         SHORT_DELAY, store.nodes, newEdges)
    /\ UNCHANGED othersThanStore

NextStore ==
    \/ getNodeID
    \/ addNode
    \/ \E id \in NodeIdsOf(store) : removeNode(id)
    \/ \E changes \in ChangeLists(NodeChanges(store)) : onNodesChange(changes)
    \/ \E id \in NodeIdsOf(store), v \in FieldValues : updateNodeField(id, v)
    \/ undo
    \/ redo
    \/ \E w \in LoadChoices : loadWorkflow(w.nodes, w.edges)
    \/ clearWorkflow
    \/ \E changes \in ChangeLists(EdgeChanges(store)) : onEdgesChange(changes)
    \/ \E s \in NodeIdsOf(store), t \in NodeIdsOf(store) : onConnect(s, t)

SpecStore == InitStore /\ [][NextStore]_vars

\* A step of undo: the newest past entry has become the present.
UndoneStep == Len(store'.history.past) < Len(store.history.past)

\* C18: after any sequence of store actions history.past holds at most
\* MAX_HISTORY entries, and a step that records the present where the past
\* is full drops the oldest entry: the new past is the last MAX_HISTORY
\* entries of the old past followed by the old present.
C18_PastBounded ==
    /\ [](Len(store.history.past) <= MAX_HISTORY)
    /\ [][(store'.history # store.history /\ ~UndoneStep)
            => store'.history.past =
                 sliceLast(Append(store.history.past, store.history.present),
                           MAX_HISTORY)]_vars

\* The past is full and its oldest entry is no longer the empty canvas the
\* store started from: an entry has been dropped.
C18_Witness ==
    /\ Len(store.history.past) = MAX_HISTORY
    /\ store.history.past[1] # createHistory.present

OnlyOfTypes(changes, types) ==
    \A i \in 1..Len(changes) : changes[i].type \in types

HistoryKeys(state) ==
    <<state.history.past, state.history.present, state.history.future,
      state.canUndo, state.canRedo>>

\* C19: an onNodesChange whose changes are all of type select or position,
\* and an onEdgesChange whose changes are all of type select, leave
\* history.past, history.present, history.future, canUndo and canRedo as
\* they were: no step that changes one of them is such a call.
C19_SelectionOutsideHistory ==
    [][HistoryKeys(store') # HistoryKeys(store)
        => /\ \A changes \in ChangeLists(NodeChanges(store)) :
                OnlyOfTypes(changes, {"select", "position"})
                    => ~onNodesChange(changes)
           /\ \A changes \in ChangeLists(EdgeChanges(store)) :
                OnlyOfTypes(changes, {"select"})
                    => ~onEdgesChange(changes)]_vars

\* Selections or moves have changed the nodes and the edges of a canvas
\* with a past, and the history still shows the canvas before them.
C19_Witness ==
    /\ store.canUndo
    /\ store.nodes # store.history.present.nodes
    /\ store.edges # store.history.present.edges
    /\ Len(store.nodes) = Len(store.history.present.nodes)
    /\ Len(store.edges) = Len(store.history.present.edges)

\* C25: where canUndo is true, undo followed at once by redo leaves the
\* nodes and the edges of the store as they were before the undo.
C25_UndoRedoRestores ==
    store.canUndo =>
        LET back == redone(undone(store))
        IN  back.nodes = store.nodes /\ back.edges = store.edges

\* C26: the id getNodeID returns is never the id of a node in the store.
C26_FreshNodeId ==
    [][store'.nodeIDs = store.nodeIDs + 1
        => store'.pending \notin NodeIdsOf(store)]_vars

\* C29: canUndo is true exactly when history.past is not empty, canRedo
\* exactly when history.future is not empty, and every step that changes
\* the history and is neither an undo nor a redo leaves the future empty.
C29_FlagsMatchHistory ==
    /\ [](/\ store.canUndo <=> store.history.past # <<>>
          /\ store.canRedo <=> store.history.future # <<>>)
    /\ [][(store'.history # store.history /\ ~undo /\ ~redo)
            => store'.history.future = <<>>]_vars

\* Two states have been undone and one is left to undo.
C29_Witness ==
    /\ store.canUndo
    /\ store.canRedo
    /\ Len(store.history.future) >= 2

\* ---------------------------------------------------------------------
\* Saved workflows (workflowPersistence.js).
\* ---------------------------------------------------------------------

\* Milliseconds the clock of Date.now() advances.
MaxSaveClock == 2

\* const MAX_WORKFLOWS = 10, scaled.
MAX_WORKFLOWS == 3

\* Names and canvases the user saves.
WorkflowNames == {"a", "b", "c", "d"}
Canvases == {0, 1}

\* The workflow object saveWorkflow builds at time t.
Workflow(name, nodes, t) ==
    [id |-> t, name |-> name, nodes |-> nodes, createdAt |-> t, updatedAt |-> t]

\* workflows.findIndex(w => w.name === name), 0 for -1.
findIndex(workflows, name) ==
    IF \E i \in 1..Len(workflows) : workflows[i].name = name
    THEN CHOOSE i \in 1..Len(workflows) :
            /\ workflows[i].name = name
            /\ \A j \in 1..(i - 1) : workflows[j].name # name
    ELSE 0

\* saveWorkflow that never pops.
saveWorkflowIntoUncapped(workflows, name, nodes, t) ==
    LET workflow == Workflow(name, nodes, t)
        existingIndex == findIndex(workflows, name)
    IN  IF existingIndex > 0
        THEN [workflows EXCEPT ![existingIndex] =
                [workflow EXCEPT !.id = workflows[existingIndex].id,
                                 !.createdAt = workflows[existingIndex].createdAt]]
        ELSE <<workflow>> \o workflows

\* The list saveWorkflow(name, nodes, edges) stores at time t.
saveWorkflowInto(workflows, name, nodes, t) ==
    LET workflow == Workflow(name, nodes, t)
        existingIndex == findIndex(workflows, name)
        unshifted == <<workflow>> \o workflows
    IN  IF existingIndex > 0
        THEN [workflows EXCEPT ![existingIndex] =
                [workflow EXCEPT !.id = workflows[existingIndex].id,
                                 !.createdAt = workflows[existingIndex].createdAt]]
        ELSE IF Len(unshifted) > MAX_WORKFLOWS
             THEN SubSeq(unshifted, 1, Len(unshifted) - 1)
             ELSE unshifted

\* loadWorkflow(id) of workflowPersistence.js: workflows.find(w => w.id === id),
\* `has` false for undefined.
findById(workflows, id) ==
    IF \E i \in 1..Len(workflows) : workflows[i].id = id
    THEN [has |-> TRUE,
          workflow |-> workflows[CHOOSE i \in 1..Len(workflows) :
                                    /\ workflows[i].id = id
                                    /\ \A j \in 1..(i - 1) : workflows[j].id # id]]
    ELSE [has |-> FALSE, workflow |-> Workflow("", 0, 0)]

InitSaved ==
    /\ CacheIdle
    /\ DagIdle
    /\ ReqsIdle
    /\ TplIdle
    /\ TelIdle
    /\ LimIdle
    /\ StoreIdle
    /\ SavedIdle
    /\ AutoIdle
    /\ UiIdle
    /\ ApiIdle

othersThanSaved == <<cacheVars, dagVars, reqVars, tpl, tel, lim, store, auto, ui, api>>

\* saveWorkflow(name, nodes, edges)
saveWorkflow(name, nodes) ==
    /\ saved' = [saved EXCEPT
                    !.workflows =
                        saveWorkflowInto(saved.workflows, name, nodes, saved.clock),
                    !.popped =
                        \/ saved.popped
                        \/ /\ findIndex(saved.workflows, name) = 0
                           /\ Len(saved.workflows) + 1 > MAX_WORKFLOWS]
    /\ UNCHANGED othersThanSaved

\* deleteWorkflow(id)
deleteWorkflow(id) ==
    /\ saved' = [saved EXCEPT !.workflows =
                    SelectSeq(saved.workflows, LAMBDA w : w.id # id)]
    /\ UNCHANGED othersThanSaved

\* A millisecond passes.
SavedTick ==
    /\ saved.clock < MaxSaveClock
    /\ saved' = [saved EXCEPT !.clock = saved.clock + 1]
    /\ UNCHANGED othersThanSaved

NextSaved ==
    \/ \E name \in WorkflowNames, nodes \in Canvases : saveWorkflow(name, nodes)
    \/ \E id \in 0..MaxSaveClock : deleteWorkflow(id)
    \/ SavedTick

SpecSaved == InitSaved /\ [][NextSaved]_vars

NamesOf(workflows) == {workflows[i].name : i \in 1..Len(workflows)}

\* C20: after any sequence of saveWorkflow and deleteWorkflow calls the
\* list holds at most MAX_WORKFLOWS workflows and no two have the same
\* name; a save of a new name puts the workflow first and drops the last
\* entry when the list would be longer than MAX_WORKFLOWS; a save of a name
\* in the list replaces that entry where it is, with its id and createdAt
\* kept, and leaves the other entries alone.
C20_SavedList ==
    /\ [](/\ Len(saved.workflows) <= MAX_WORKFLOWS
          /\ \A i, j \in 1..Len(saved.workflows) :
                saved.workflows[i].name = saved.workflows[j].name => i = j)
    /\ [][\A name \in WorkflowNames, nodes \in Canvases :
            saveWorkflow(name, nodes) =>
              LET old == saved.workflows
                  new == saved'.workflows
              IN  IF name \in NamesOf(old)
                  THEN /\ Len(new) = Len(old)
                       /\ \A i \in 1..Len(old) :
                            IF old[i].name = name
                            THEN /\ new[i].name = name
                                 /\ new[i].nodes = nodes
                                 /\ new[i].id = old[i].id
                                 /\ new[i].createdAt = old[i].createdAt
                            ELSE new[i] = old[i]
                  ELSE /\ new[1].name = name
                       /\ new[1].nodes = nodes
                       /\ Len(new) = IF Len(old) = MAX_WORKFLOWS
                                     THEN MAX_WORKFLOWS ELSE Len(old) + 1
                       /\ \A i \in 2..Len(new) : new[i] = old[i - 1]]_vars

\* The list is full, a save has dropped its last entry, and an entry that
\* is not the first has been saved again later than it was created.
C20_Witness ==
    /\ Len(saved.workflows) = MAX_WORKFLOWS
    /\ saved.popped
    /\ \E i \in 1..Len(saved.workflows) :
            /\ saved.workflows[i].updatedAt > saved.workflows[i].createdAt
            /\ i > 1

\* C27: for w = saveWorkflow(name, nodes, edges), a loadWorkflow(w.id) that
\* follows at once returns the workflow stored under that name with those
\* nodes, whether the name is new or not; and no two saved workflows have
\* the same id.
C27_LoadByReturnedId ==
    /\ \A name \in WorkflowNames, nodes \in Canvases :
          LET after == saveWorkflowInto(saved.workflows, name, nodes, saved.clock)
              w == Workflow(name, nodes, saved.clock)
              loaded == findById(after, w.id)
          IN  /\ loaded.has
              /\ loaded.workflow.name = name
              /\ loaded.workflow.nodes = nodes
    /\ \A i, j \in 1..Len(saved.workflows) :
          saved.workflows[i].id = saved.workflows[j].id => i = j

\* ---------------------------------------------------------------------
\* Auto-save: the store with the timers of its actions running against a
\* working localStorage.
\* ---------------------------------------------------------------------

InitAuto ==
    /\ CacheIdle
    /\ DagIdle
    /\ ReqsIdle
    /\ TplIdle
    /\ TelIdle
    /\ LimIdle
    /\ StoreIdle
    /\ SavedIdle
    /\ auto = [NoAuto EXCEPT !.storage = TRUE]
    /\ UiIdle
    /\ ApiIdle

othersThanAuto == <<cacheVars, dagVars, reqVars, tpl, tel, lim, saved, store, ui, api>>

\* The first timer that is due, 0 for none: timers that are due together
\* run in the order they were started.
dueTimer(timers) ==
    IF \E i \in 1..Len(timers) : timers[i].left = 0
    THEN CHOOSE i \in 1..Len(timers) :
            /\ timers[i].left = 0
            /\ \A j \in 1..(i - 1) : timers[j].left # 0
    ELSE 0

\* 100 ms pass with no timer due.
AutoTick ==
    /\ auto.timers # <<>>
    /\ dueTimer(auto.timers) = 0
    /\ auto' = [auto EXCEPT !.timers =
                    [i \in 1..Len(auto.timers) |->
                        [auto.timers[i] EXCEPT !.left = @ - 1]]]
    /\ UNCHANGED othersThanAuto

\* A timer runs autoSaveWorkflow(nodes, edges) with the canvas it was
\* started with.
TimerFires ==
    /\ dueTimer(auto.timers) # 0
    /\ LET i == dueTimer(auto.timers)
           t == auto.timers[i]
       IN  auto' = [auto EXCEPT
                !.timers = SubSeq(auto.timers, 1, i - 1)
                             \o SubSeq(auto.timers, i + 1, Len(auto.timers)),
                !.saved = [has |-> TRUE, nodes |-> t.nodes, edges |-> t.edges]]
    /\ UNCHANGED othersThanAuto

NextAuto ==
    \/ NextStore
    \/ AutoTick
    \/ TimerFires

SpecAuto == InitAuto /\ [][NextAuto]_vars

\* C21: once every pending auto-save timer has fired, the auto-saved
\* workflow of a canvas that holds something, or that has been auto-saved
\* before, is the store's current nodes and edges.
C21_AutoSaveCurrent ==
    (/\ auto.storage
     /\ auto.timers = <<>>
     /\ (store.nodes # <<>> \/ store.edges # <<>> \/ auto.saved.has))
        => /\ auto.saved.has
           /\ auto.saved.nodes = store.nodes
           /\ auto.saved.edges = store.edges

\* ---------------------------------------------------------------------
\* The run popup (WorkflowPopup.js): the body handleRun builds, against
\* the schema of the server.
\* ---------------------------------------------------------------------

\* The graphs of the popup: an input node, or two, and an output node, with
\* or without an LLM node.
UiNodeLists ==
    { <<InNode("in1", "topic"), OutNode("out1")>>,
      <<InNode("in1", "topic"), InNode("in2", ""), OutNode("out1")>> }

\* The data of the LLM node: each field set or not.
UiLlmData ==
    [apiKey : {NoName, Some("key-1")},
     model : {NoName, Some("gemini-1.5-pro")},
     system : {None, Some(<<Lit("Talk about "), Ph("topic")>>)},
     prompt : {None, Some(<<Lit("Explain "), Ph("topic")>>)}]

\* The popup's inputs state: nothing typed, or a text for the first input.
UiInputs == { <<>>, <<[id |-> "in1", value |-> Str(<<Lit("dogs")>>)]>> }

LlmNode(id) == [id |-> id, type |-> "llm", inputName |-> ""]

\* x || '' and x || 'gemini-2.0-flash-exp'
orEmptyText(x) == IF x.has /\ x.s # <<>> THEN x ELSE Some(<<>>)
orEmptyName(x) == IF x.has /\ x.s # "" THEN x ELSE Some("")
orDefaultModel(x) == IF x.has /\ x.s # "" THEN x ELSE Some(DEFAULT_MODEL)

\* The workflowData of handleRun: llmConfig from the first LLM node, null
\* where there is none.
handleRun(u) ==
    [nodes |-> [kind |-> "list",
                list |-> IF u.llm THEN Append(u.nodes, LlmNode("llm-1")) ELSE u.nodes],
     inputs |-> [kind |-> "object", entries |-> u.inputs],
     llmConfig |->
        IF u.llm
        THEN [kind |-> "object",
              apiKey |-> orEmptyName(u.data.apiKey),
              model |-> orDefaultModel(u.data.model),
              system |-> orEmptyText(u.data.system),
              prompt |-> orEmptyText(u.data.prompt)]
        ELSE [kind |-> "null", apiKey |-> NoName, model |-> NoName,
              system |-> None, prompt |-> None]]

InitUi ==
    /\ CacheIdle
    /\ DagIdle
    /\ ReqsIdle
    /\ TplIdle
    /\ TelIdle
    /\ LimIdle
    /\ StoreIdle
    /\ SavedIdle
    /\ AutoIdle
    /\ ApiIdle
    /\ \E nodes \in UiNodeLists, llm \in BOOLEAN, data \in UiLlmData,
          inputs \in UiInputs :
            /\ ~llm => data = NoLlmData
            /\ ui = [NoUi EXCEPT !.nodes = nodes, !.llm = llm, !.data = data,
                                 !.inputs = inputs]

\* Run is pressed: the body goes to POST /run-workflow and through
\* validateWithJoi(workflowSchema).
RunPressed ==
    /\ ~ui.sent
    /\ ui' = [ui EXCEPT !.sent = TRUE,
                        !.body = handleRun(ui),
                        !.passed = joiValid(handleRun(ui))]
    /\ UNCHANGED <<cacheVars, dagVars, reqVars, tpl, tel, lim, store, saved, auto, api>>

NextUi == RunPressed

SpecUi == InitUi /\ [][NextUi]_vars

\* C23: the body handleRun builds for a graph with an input node and an
\* output node passes workflowSchema, whether the LLM node has an API key, a
\* system text and a prompt or not, and whether there is an LLM node or not.
C23_UiBodyValid == ui.sent => ui.passed

\* ---------------------------------------------------------------------
\* callWorkflowAPI (WorkflowPopup.js): the retry loop of the popup.
\* ---------------------------------------------------------------------

\* maxRetries = 3, and the backoff 1000 * 2^(attempt - 1) capped at 10000.
DEFAULT_MAX_RETRIES == 3
BACKOFF_BASE == 1000
BACKOFF_CAP == 10000

\* The maxRetries of the calls: one attempt, the default, and enough for
\* the backoff to reach its cap.
RetryChoices == {1, DEFAULT_MAX_RETRIES, 6}

\* What an attempt comes to: a result (a 2xx body without a truthy error
\* member), or a failure: fetch rejects (network), the 30 s signal aborts
\* it (timeout), a status that is not 2xx, a 2xx body that is not JSON, a
\* 2xx body with an error.
ApiFailures == {"network", "timeout", "status", "json", "error"}
ApiOutcomes == {"ok"} \cup ApiFailures

\* The backoff without its cap.
waitTimeUncapped(attempt) == BACKOFF_BASE * 2 ^ (attempt - 1)

\* Math.min(1000 * Math.pow(2, attempt - 1), 10000)
waitTime(attempt) ==
    IF BACKOFF_BASE * 2 ^ (attempt - 1) < BACKOFF_CAP
    THEN BACKOFF_BASE * 2 ^ (attempt - 1)
    ELSE BACKOFF_CAP

InitApi ==
    /\ CacheIdle
    /\ DagIdle
    /\ ReqsIdle
    /\ TplIdle
    /\ TelIdle
    /\ LimIdle
    /\ StoreIdle
    /\ SavedIdle
    /\ AutoIdle
    /\ UiIdle
    /\ ApiIdle

othersThanApi ==
    <<cacheVars, dagVars, reqVars, tpl, tel, lim, store, saved, auto, ui>>

\* callWorkflowAPI(workflowData, maxRetries) is called and fetches.
callWorkflowAPI(maxRetries) ==
    /\ api.pc = "idle"
    /\ api' = [api EXCEPT !.pc = "fetch", !.maxRetries = maxRetries,
                          !.attempt = 1, !.requests = 1]
    /\ UNCHANGED othersThanApi

\* The attempt comes to its result or to its failure: the result is
\* returned; the failure is thrown if the attempt is the last, and followed
\* by the backoff if not.
ApiAttemptSettles(o) ==
    /\ api.pc = "fetch"
    /\ api' = IF o = "ok"
              THEN [api EXCEPT !.pc = "returned", !.outcomes = Append(@, o)]
              ELSE IF api.attempt = api.maxRetries
              THEN [api EXCEPT !.pc = "thrown", !.outcomes = Append(@, o),
                               !.error = o]
              ELSE [api EXCEPT !.pc = "wait", !.outcomes = Append(@, o),
                               !.waits = Append(@, waitTime(api.attempt))]
    /\ UNCHANGED othersThanApi

\* The backoff timer fires: the next attempt fetches.
ApiWaitElapses ==
    /\ api.pc = "wait"
    /\ api' = [api EXCEPT !.pc = "fetch", !.attempt = @ + 1, !.requests = @ + 1]
    /\ UNCHANGED othersThanApi

NextApi ==
    \/ \E m \in RetryChoices : callWorkflowAPI(m)
    \/ \E o \in ApiOutcomes : ApiAttemptSettles(o)
    \/ ApiWaitElapses

\* Every fetch settles (its signal aborts it after 30 s) and every timer
\* fires.
SpecApi == InitApi /\ [][NextApi]_vars /\ WF_vars(NextApi)

ApiDone == api.pc \in {"returned", "thrown"}

\* min(1000 * 2^(k-1), 10000) for the waits 1..n
ExpectedWaits(n) ==
    [k \in 1..n |-> IF k = 1 THEN 1000 ELSE IF k = 2 THEN 2000
                    ELSE IF k = 3 THEN 4000 ELSE IF k = 4 THEN 8000 ELSE 10000]

\* C28: a call makes at most maxRetries requests; it returns at the first
\* result, every attempt before it a failure; it throws only after
\* maxRetries failures, of whatever kind, and then the error of the last;
\* the wait after attempt k is min(1000 * 2^(k-1), 10000) ms; and every
\* call comes to its return or its throw.
C28_RetryLoop ==
    /\ [](/\ api.requests <= api.maxRetries
          /\ api.pc = "returned" =>
                /\ api.outcomes[Len(api.outcomes)] = "ok"
                /\ \A k \in 1..(Len(api.outcomes) - 1) :
                        api.outcomes[k] \in ApiFailures
                /\ api.requests = Len(api.outcomes)
          /\ api.pc = "thrown" =>
                /\ api.requests = api.maxRetries
                /\ Len(api.outcomes) = api.maxRetries
                /\ \A k \in 1..Len(api.outcomes) : api.outcomes[k] \in ApiFailures
                /\ api.error = api.outcomes[Len(api.outcomes)]
          /\ ApiDone => api.waits = ExpectedWaits(api.requests - 1))
    /\ [][ApiDone => api' = api]_vars
    /\ (api.pc # "idle" ~> ApiDone)

\* A call has thrown after six failed attempts, the last wait at the cap.
C28_Witness ==
    /\ api.pc = "thrown"
    /\ api.requests = 6
    /\ api.waits[5] = BACKOFF_CAP

====
